---------------------------- MODULE Spec2Model ----------------------------
(***************************************************************************)
(* Model of the warehouse loader src/src/analytics_project/etl_to_dw.py    *)
(* (load_dw and the functions it calls, run once and then once more on the *)
(* same files: specification Spec), of the customers augmenter            *)
(* src/scripts/add_columns_to_customers.py (specification AugmentSpec) and *)
(* of the cleaners src/src/data_preparation/prepare_sales_data.py          *)
(* (clean_sales: specification SalesCleanSpec) and                         *)
(* prepare_customers_data.py (clean_customers: CustomersCleanSpec).        *)
(*                                                                         *)
(* Representation of pandas / CSV values:                                  *)
(*   - a key or text cell is a string; NaN is the missing value (pandas    *)
(*     NaN and None alike: both are null to dropna, isna and to_sql);      *)
(*   - a date cell is a tuple: <<y, m, d>> is the text "y-m-d", a tuple of *)
(*     two strings is any other text, << >> is the empty / missing cell;   *)
(*   - a numeric cell is a tuple: <<n>> is the number n/100 (hundredths),  *)
(*     a tuple of two strings is non-numeric text, << >> is missing;       *)
(*   - a datetime64 value is <<days since 1970-01-01>>, NaT is << >>.      *)
(* The library calls the loader makes are modelled by their documented     *)
(* behaviour: pandas.read_csv turns empty and NA-literal cells into NaN,   *)
(* Series.astype(str) turns NaN into the text "nan", and DataFrame.to_sql  *)
(* on a sqlite3 connection runs its INSERTs inside pandas'                 *)
(* SQLiteDatabase.run_transaction, which commits the connection when the   *)
(* inserts succeed and rolls it back when one raises.                      *)
(* Series.astype(int) casts a finite float without a range check; the      *)
(* integer type has IntBits bits here, and a pool quantity beyond that     *)
(* range stands for a quantity beyond the range of int64.                  *)
(* A file is the sequence of its rows, each row a record over the columns  *)
(* of the header; a file without rows is taken to have its full header.    *)
(***************************************************************************)
EXTENDS Integers, Sequences, FiniteSets, TLC

\* ------------------------------------------------------------------ bounds
MaxSales == 2        \* rows in the cleaned sales file
MaxDimRows == 2      \* rows in a customers file (cleaned or raw)
MaxRawRows == 2      \* rows of a raw file a cleaner reads, beside the fixed rows of a pool
IntBits == 16        \* width of the integer type of the model (numpy's int64 has 64 bits)

\* ------------------------------------------------------------ constants of the source
MIN_TRIM_ROWS == 11  \* validate_and_finalize trims a column of at least 11 values

\* ------------------------------------------------------------ value helpers
NaN == "<NaN>"
NaT == << >>

SeqsUpTo(S, n) == UNION {[1..k -> S] : k \in 0..n}

\* pandas.read_csv default na_values (the ones the pools can contain)
NaValues == {"", "nan", "NaN", "NA", "N/A", "NULL", "null", "None", "n/a"}

\* one text cell of a CSV file as pandas.read_csv returns it
ReadCsvCell(text) == IF text \in NaValues THEN NaN ELSE text

\* Series.astype(str) on one value: NaN becomes the text "nan"
AsStr(v) == IF v = NaN THEN "nan" ELSE v

IsNa(v) == v = NaN

\* ------------------------------------------------------------ dates
IsLeap(y) == (y % 4 = 0 /\ y % 100 # 0) \/ y % 400 = 0

DaysInMonth(y, m) ==
    IF m = 2 THEN (IF IsLeap(y) THEN 29 ELSE 28)
    ELSE IF m \in {4, 6, 9, 11} THEN 30 ELSE 31

\* days since 1970-01-01 of the civil date y-m-d
DaysFromCivil(y, m, d) ==
    LET yy  == IF m <= 2 THEN y - 1 ELSE y
        era == yy \div 400
        yoe == yy - era * 400
        mp  == IF m > 2 THEN m - 3 ELSE m + 9
        doy == (153 * mp + 2) \div 5 + d - 1
        doe == yoe * 365 + yoe \div 4 - yoe \div 100 + doy
    IN  era * 146097 + doe - 719468

\* the civil date <<y, m, d>> of a day count
CivilFromDays(z0) ==
    LET z   == z0 + 719468
        era == z \div 146097
        doe == z - era * 146097
        yoe == (doe - doe \div 1460 + doe \div 36524 - doe \div 146096) \div 365
        doy == doe - (365 * yoe + yoe \div 4 - yoe \div 100)
        mp  == (5 * doy + 2) \div 153
        d   == doy - (153 * mp + 2) \div 5 + 1
        m   == IF mp < 10 THEN mp + 3 ELSE mp - 9
        y   == yoe + era * 400 + (IF m <= 2 THEN 1 ELSE 0)
    IN  <<y, m, d>>

\* pd.to_datetime(cell, format="%Y-%m-%d", errors="coerce") on one cell
ToDatetime(cell) ==
    IF Len(cell) = 3
       /\ cell[2] \in 1..12
       /\ cell[3] >= 1
       /\ cell[3] <= DaysInMonth(cell[1], cell[2])
    THEN <<DaysFromCivil(cell[1], cell[2], cell[3])>>
    ELSE NaT

\* Series.dt.strftime("%Y-%m-%d") on one datetime
Strftime(dt) == CivilFromDays(dt[1])

\* Series.dt.dayofweek: Monday = 0 ... Sunday = 6 (1970-01-01 was a Thursday)
DayOfWeek(dt) == (dt[1] + 3) % 7

\* ------------------------------------------------------------ utilities
\* _yn_to_int on one value
StripLower(s) ==
    CASE s \in {"yes", "Yes", "YES", " yes ", " Yes "} -> "yes"
      [] s \in {"no", "No", "NO", " no "}              -> "no"
      [] s \in {"true", "True", "TRUE"}                -> "true"
      [] s \in {"false", "False", "FALSE"}             -> "false"
      [] OTHER                                          -> s

\* faulty variant of YnToInt: the map has no entries for "true" and "false"
YnToIntYesNoOnly(v) ==
    LET s == StripLower(AsStr(v))
    IN  IF s \in {"yes", "1"} THEN 1 ELSE 0

YnToInt(v) ==
    LET s == StripLower(AsStr(v))
    IN  IF s \in {"yes", "1", "true"} THEN 1 ELSE 0

\* pd.to_numeric(cell, errors="coerce") on one cell, in hundredths; NaN is << >>
ToNumeric(cell) == IF Len(cell) = 1 THEN cell ELSE << >>

\* float -> int conversion of astype(int): truncation toward zero
TruncToInt(h) == IF h >= 0 THEN h \div 100 ELSE -((-h) \div 100)

\* _num on one cell: hundredths, or whole units when as_int
Num(cell, as_int) ==
    LET s == IF ToNumeric(cell) = << >> THEN 0 ELSE ToNumeric(cell)[1]
    IN  IF as_int THEN TruncToInt(s) ELSE s


\* ------------------------------------------------------------ _read_clean
\* pd.read_csv on the three cleaned files (key and text columns go through
\* ReadCsvCell; date and numeric cells keep their tuple form)
\* the columns of the three files that hold text (the others hold dates or numbers)
TextColumns ==
    {"CustomerID", "Name", "Region", "JoinDate", "LastPurchaseDate", "EmailOptIn",
     "ProductID", "ProductName", "Category", "Discontinued", "StoreID", "CampaignID",
     "PaymentMethod"}

\* the whole-number texts of the pools
IntTexts == {"0", "1"}

\* cell i of text column c as pandas.read_csv returns it: a column of whole
\* numbers with an empty cell is read as float64, whose values print as "1.0"
ReadColumnCell(file, c, i) ==
    LET cells == {file[k][c] : k \in 1..Len(file)}
    IN  IF /\ cells \subseteq NaValues \cup IntTexts
           /\ cells \cap NaValues # {}
           /\ file[i][c] \in IntTexts
        THEN file[i][c] \o ".0"
        ELSE ReadCsvCell(file[i][c])

\* pandas.read_csv of one file: the frame has the columns the header names
ReadCsv(file) ==
    [i \in 1..Len(file) |->
        [c \in DOMAIN file[i] |->
            IF c \in TextColumns THEN ReadColumnCell(file, c, i) ELSE file[i][c]]]

ReadCustomersCsv(file) == ReadCsv(file)

ReadProductsCsv(file) == ReadCsv(file)

ReadSalesCsv(file) == ReadCsv(file)

\* df.columns: a frame without rows is taken to have every column
HasColumn(df, c) == df = << >> \/ c \in DOMAIN df[1]

CustomersColumns ==
    {"CustomerID", "Name", "Region", "JoinDate", "LastPurchaseDate", "EmailOptIn"}

ProductsColumns ==
    {"ProductID", "ProductName", "Category", "UnitPrice", "StockLevel", "Discontinued"}

SalesColumns ==
    {"TransactionID", "SaleDate", "CustomerID", "ProductID", "StoreID", "CampaignID",
     "SaleAmount", "Quantity", "PaymentMethod"}

\* the exception the three normalizers raise on frames that lack a column they
\* index ("" if none): df[...] raises KeyError, and df.get(col, "text").astype
\* raises AttributeError because the default is a str
NormalizeError(customers, products, sales) ==
    IF \E c \in CustomersColumns : ~HasColumn(customers, c) THEN "KeyError"
    ELSE IF \E c \in ProductsColumns : ~HasColumn(products, c) THEN "KeyError"
    ELSE IF \E c \in {"SaleDate", "Quantity", "SaleAmount"} : ~HasColumn(sales, c)
    THEN "KeyError"
    ELSE IF \E c \in {"StoreID", "PaymentMethod"} : ~HasColumn(sales, c)
    THEN "AttributeError"
    ELSE IF ~HasColumn(sales, "CampaignID") THEN "KeyError"
    ELSE ""

\* ------------------------------------------------------------ normalizers
normalize_customers(df) ==
    [i \in 1..Len(df) |->
        [customer_id        |-> df[i].CustomerID,
         name               |-> df[i].Name,
         region             |-> df[i].Region,
         join_date          |-> df[i].JoinDate,
         last_purchase_date |-> df[i].LastPurchaseDate,
         email_opt_in       |-> YnToInt(df[i].EmailOptIn)]]

normalize_products(df) ==
    [i \in 1..Len(df) |->
        [product_id   |-> df[i].ProductID,
         product_name |-> df[i].ProductName,
         category     |-> df[i].Category,
         unit_price   |-> Num(df[i].UnitPrice, FALSE),
         stock_level  |-> Num(df[i].StockLevel, TRUE),
         discontinued |-> YnToInt(df[i].Discontinued)]]

\* .astype(str).replace({"": "UNKNOWN-STORE"}) on one value
NormStoreId(v) == IF AsStr(v) = "" THEN "UNKNOWN-STORE" ELSE AsStr(v)

\* .astype(str).replace({"": "UNKNOWN"}) on one value
NormPaymentMethodId(v) == IF AsStr(v) = "" THEN "UNKNOWN" ELSE AsStr(v)

\* faulty variant of NormCampaignId: only the empty string becomes None
NormCampaignIdEmptyOnly(v) == IF AsStr(v) = "" THEN NaN ELSE AsStr(v)

\* .astype(str).replace({"": None, "nan": None}) on one value
NormCampaignId(v) == IF AsStr(v) \in {"", "nan"} THEN NaN ELSE AsStr(v)

\* the columns of one surviving row; index is the DataFrame index label
NormalizeSalesRow(r, idx) ==
    LET renamed == [TransactionID |-> "sale_id", CustomerID |-> "customer_id",
                    ProductID |-> "product_id"]
        kept    == {renamed[c] : c \in DOMAIN r \cap DOMAIN renamed}
        fixed   == [index             |-> idx,
                    date              |-> Strftime(ToDatetime(r.SaleDate)),
                    store_id          |-> NormStoreId(r.StoreID),
                    campaign_id       |-> NormCampaignId(r.CampaignID),
                    sales_amount      |-> Num(r.SaleAmount, FALSE),
                    quantity          |-> Num(r.Quantity, TRUE),
                    payment_method_id |-> NormPaymentMethodId(r.PaymentMethod)]
    IN  [c \in kept \cup DOMAIN fixed |->
            CASE c = "sale_id"     -> r.TransactionID
              [] c = "customer_id" -> r.CustomerID
              [] c = "product_id"  -> r.ProductID
              [] OTHER             -> fixed[c]]

\* faulty variant of KeepSalesRow: also drops a row whose Quantity is not a number
KeepSalesRowNumericOnly(r) == ToDatetime(r.SaleDate) # NaT /\ Len(r.Quantity) = 1

\* the row filter df[dt.notna()]
KeepSalesRow(r) == ToDatetime(r.SaleDate) # NaT

RECURSIVE NormalizeSalesFrom(_, _)
NormalizeSalesFrom(df, i) ==
    IF i > Len(df) THEN << >>
    ELSE (IF KeepSalesRow(df[i])
          THEN <<NormalizeSalesRow(df[i], i - 1)>> ELSE << >>)
         \o NormalizeSalesFrom(df, i + 1)

normalize_sales(df) == NormalizeSalesFrom(df, 1)

\* ------------------------------------------------------------ dimension synthesis
\* drop_duplicates on <<key, value>> pairs: the first pair of each key is kept
RECURSIVE DropDuplicates(_, _)
DropDuplicates(pairs, seen) ==
    IF pairs = << >> THEN << >>
    ELSE IF Head(pairs)[1] \in seen THEN DropDuplicates(Tail(pairs), seen)
    ELSE <<Head(pairs)>> \o DropDuplicates(Tail(pairs), seen \cup {Head(pairs)[1]})

\* the order of two sort keys: tuples of numbers of one length, compared left to
\* right (a zero-padded "%Y-%m-%d" text sorts as its <<y, m, d>>)
TupleLess(a, b) ==
    \E i \in 1..Len(a) : a[i] < b[i] /\ \A j \in 1..(i - 1) : a[j] = b[j]

RECURSIVE InsertSorted(_, _)
InsertSorted(x, s) ==
    IF s = << >> THEN <<x>>
    ELSE IF TupleLess(x[1], Head(s)[1]) THEN <<x>> \o s
    ELSE <<Head(s)>> \o InsertSorted(x, Tail(s))

\* a stable ascending sort of <<sort key, value>> pairs
RECURSIVE SortValues(_)
SortValues(pairs) ==
    IF pairs = << >> THEN << >>
    ELSE InsertSorted(pairs[Len(pairs)], SortValues(SubSeq(pairs, 1, Len(pairs) - 1)))

\* the second components of a sequence of pairs
Values(pairs) == [i \in 1..Len(pairs) |-> pairs[i][2]]

\* faulty variant of IsWeekend: takes Sunday for day 0 (isin([6, 0]))
IsWeekendSundayFirst(dt) == IF DayOfWeek(dt) \in {6, 0} THEN 1 ELSE 0

\* dayofweek.isin([5, 6]).astype(int)
IsWeekend(dt) == IF DayOfWeek(dt) \in {5, 6} THEN 1 ELSE 0

DateRow(dt) ==
    [date       |-> Strftime(dt),
     year       |-> Strftime(dt)[1],
     quarter    |-> (Strftime(dt)[2] - 1) \div 3 + 1,
     month      |-> Strftime(dt)[2],
     day        |-> Strftime(dt)[3],
     is_weekend |-> IsWeekend(dt)]

build_dates_from_sales(sales_df) ==
    LET dts  == [i \in 1..Len(sales_df) |-> ToDatetime(sales_df[i].date)]
        s    == SelectSeq(dts, LAMBDA dt : dt # NaT)
        rows == [i \in 1..Len(s) |-> DateRow(s[i])]
    IN  Values(SortValues(DropDuplicates([i \in 1..Len(rows) |-> <<rows[i].date, rows[i]>>],
                                         {})))

\* faulty variant of DistinctIds: repeated values are kept (no drop_duplicates)
DistinctIdsKeepRepeats(sales_df, id_col) ==
    LET col == [i \in 1..Len(sales_df) |-> sales_df[i][id_col]]
        s   == SelectSeq(col, LAMBDA v : ~IsNa(v))
    IN  [i \in 1..Len(s) |-> AsStr(s[i])]

\* sales_df[id_col].dropna().astype(str).drop_duplicates()
DistinctIds(sales_df, id_col) ==
    LET col == [i \in 1..Len(sales_df) |-> sales_df[i][id_col]]
        s   == SelectSeq(col, LAMBDA v : ~IsNa(v))
    IN  Values(DropDuplicates([i \in 1..Len(s) |-> <<AsStr(s[i]), AsStr(s[i])>>], {}))

build_dim_from_sales(sales_df, id_col, schema) ==
    LET ids == DistinctIds(sales_df, id_col)
    IN  [i \in 1..Len(ids) |->
            CASE schema = "stores" ->
                    [store_id |-> ids[i], store_name |-> "", region |-> ""]
              [] schema = "campaigns" ->
                    [campaign_id |-> ids[i], campaign_name |-> "",
                     start_date |-> "", end_date |-> ""]
              [] schema = "payment_methods" ->
                    [payment_method_id |-> ids[i], method_name |-> ids[i]]]

\* ------------------------------------------------------------ referential closure
\* every text the pools and the sentinels can produce, in ascending string order
\* (the order sorted() gives)
SortedStrings ==
    <<"C1", "C2", "C3", "Cash", "K1", "K2", "P1", "P2", "S1", "S2",
      "UNKNOWN", "UNKNOWN-STORE", "Visa", "nan">>

StrRank(s) == CHOOSE i \in 1..Len(SortedStrings) : SortedStrings[i] = s

RECURSIVE SetToSeq(_)
SetToSeq(S) ==
    IF S = {} THEN << >>
    ELSE LET x == CHOOSE y \in S : TRUE IN <<x>> \o SetToSeq(S \ {x})

\* sorted(list(S)) for a set of strings
Sorted(S) ==
    LET l == SetToSeq(S)
    IN  Values(SortValues([i \in 1..Len(l) |-> <<<<StrRank(l[i])>>, l[i]>>]))

\* set(dim_df[key].astype(str)) if not dim_df.empty else set()
HaveKeys(dim_df, key) ==
    IF dim_df = << >> THEN {} ELSE {AsStr(dim_df[i][key]) : i \in 1..Len(dim_df)}

\* set(sales_df[key].dropna().astype(str))
NeedKeys(sales_df, key) ==
    {AsStr(sales_df[i][key]) : i \in {j \in 1..Len(sales_df) : ~IsNa(sales_df[j][key])}}

\* a fill_cols value: a constant, or a callable applied to the key of the new row
Const(v) == [k \in STRING |-> v]
Lambda_x_x == [k \in STRING |-> k]

\* faulty variant of ensure_dim_covers_sales_keys: gives up on an empty dimension
ensure_skips_empty_dim(sales_df, dim_df, key, fill_cols) ==
    LET missing == Sorted(NeedKeys(sales_df, key) \ HaveKeys(dim_df, key))
        add     == [i \in 1..Len(missing) |->
                       (key :> missing[i])
                       @@ [c \in DOMAIN fill_cols |-> fill_cols[c][missing[i]]]]
    IN  IF missing = << >> \/ dim_df = << >> THEN dim_df ELSE dim_df \o add

\* faulty variant of ensure_dim_covers_sales_keys: appends every needed key,
\* present or not (missing = sorted(need))
ensure_appends_all_needed(sales_df, dim_df, key, fill_cols) ==
    LET missing == Sorted(NeedKeys(sales_df, key))
        add     == [i \in 1..Len(missing) |->
                       (key :> missing[i])
                       @@ [c \in DOMAIN fill_cols |-> fill_cols[c][missing[i]]]]
    IN  IF missing = << >> THEN dim_df ELSE dim_df \o add

\* faulty variant of ensure_dim_covers_sales_keys: the new rows are put in front
\* (pd.concat([add, dim_df]))
ensure_prepends(sales_df, dim_df, key, fill_cols) ==
    LET missing == Sorted(NeedKeys(sales_df, key) \ HaveKeys(dim_df, key))
        add     == [i \in 1..Len(missing) |->
                       (key :> missing[i])
                       @@ [c \in DOMAIN fill_cols |-> fill_cols[c][missing[i]]]]
    IN  IF missing = << >> THEN dim_df ELSE add \o dim_df

\* fill_cols maps each default column to its Const or callable
ensure_dim_covers_sales_keys(sales_df, dim_df, key, fill_cols) ==
    LET missing == Sorted(NeedKeys(sales_df, key) \ HaveKeys(dim_df, key))
        add     == [i \in 1..Len(missing) |->
                       (key :> missing[i])
                       @@ [c \in DOMAIN fill_cols |-> fill_cols[c][missing[i]]]]
    IN  IF missing = << >> THEN dim_df ELSE dim_df \o add

StoreDefaults    == [store_name |-> Const(""), region |-> Const("")]
MethodDefaults   == [method_name |-> Lambda_x_x]
CampaignDefaults ==
    [campaign_name |-> Const(""), start_date |-> Const(""), end_date |-> Const("")]
CustomerDefaults ==
    [name |-> Const(""), region |-> Const(""), join_date |-> Const(""),
     last_purchase_date |-> Const(""), email_opt_in |-> Const(0)]
ProductDefaults  ==
    [product_name |-> Const(""), category |-> Const(""), unit_price |-> Const(0),
     stock_level |-> Const(0), discontinued |-> Const(0)]

\* ------------------------------------------------------------ schema (DDL)
Tables == {"dates", "customers", "products", "stores", "campaigns",
           "payment_methods", "sales"}

\* the PRIMARY KEY column of each table
PkCol(t) ==
    CASE t = "dates"           -> "date"
      [] t = "customers"       -> "customer_id"
      [] t = "products"        -> "product_id"
      [] t = "stores"          -> "store_id"
      [] t = "campaigns"       -> "campaign_id"
      [] t = "payment_methods" -> "payment_method_id"
      [] t = "sales"           -> "sale_id"

\* the NOT NULL columns of each table
NotNullCols(t) ==
    IF t = "sales"
    THEN {"date", "customer_id", "product_id", "store_id", "payment_method_id"}
    ELSE {}

\* the FOREIGN KEY clauses of sales: <<column, referenced table, referenced column>>
ForeignKeys(t) ==
    IF t = "sales"
    THEN {<<"date", "dates", "date">>,
          <<"customer_id", "customers", "customer_id">>,
          <<"product_id", "products", "product_id">>,
          <<"store_id", "stores", "store_id">>,
          <<"campaign_id", "campaigns", "campaign_id">>,
          <<"payment_method_id", "payment_methods", "payment_method_id">>}
    ELSE {}

\* PRAGMA foreign_keys = ON, run by executescript outside any transaction
ForeignKeysOn == TRUE

\* is the value bound to column col SQL NULL
SqlIsNull(col, v) ==
    CASE col = "date"    -> v = NaT
      [] col = "sale_id" -> FALSE
      [] OTHER           -> v = NaN

EmptyStore == [t \in Tables |-> << >>]

\* the row an INSERT of r stores: a column the statement does not name is NULL,
\* except the INTEGER PRIMARY KEY of sales, which is given the largest rowid of
\* the table plus one
SqlBind(db, t, r) ==
    LET named  == {PkCol(t)} \cup NotNullCols(t) \cup {fk[1] : fk \in ForeignKeys(t)}
        ids    == {db[t][i][PkCol(t)] : i \in 1..Len(db[t])}
        top    == IF ids = {} THEN 0 ELSE CHOOSE n \in ids : \A k \in ids : k <= n
    IN  IF named \subseteq DOMAIN r THEN r
        ELSE [c \in DOMAIN r \cup named |->
                IF c \in DOMAIN r THEN r[c]
                ELSE IF c = "sale_id" THEN top + 1 ELSE NaN]

\* the constraint an INSERT of row r into table t violates in store db ("" if none)
InsertViolation(db, t, r) ==
    IF \E c \in NotNullCols(t) : SqlIsNull(c, r[c])
    THEN "NOT NULL constraint failed"
    ELSE IF /\ ~SqlIsNull(PkCol(t), r[PkCol(t)])
            /\ \E i \in 1..Len(db[t]) :
                  /\ ~SqlIsNull(PkCol(t), db[t][i][PkCol(t)])
                  /\ db[t][i][PkCol(t)] = r[PkCol(t)]
    THEN "UNIQUE constraint failed"
    ELSE IF /\ ForeignKeysOn
            /\ \E fk \in ForeignKeys(t) :
                  /\ ~SqlIsNull(fk[1], r[fk[1]])
                  /\ ~\E i \in 1..Len(db[fk[2]]) : db[fk[2]][i][fk[3]] = r[fk[1]]
    THEN "FOREIGN KEY constraint failed"
    ELSE ""

\* executemany of the INSERT statements of one frame: the rows go in one by one
\* and the first violation raises sqlite3.IntegrityError
RECURSIVE ExecInsert(_, _, _)
ExecInsert(db, t, rows) ==
    IF rows = << >> THEN [db |-> db, error |-> ""]
    ELSE LET bound     == SqlBind(db, t, Head(rows))
             violation == InsertViolation(db, t, bound)
         IN  IF violation # ""
             THEN [db |-> db, error |-> violation]
             ELSE ExecInsert([db EXCEPT ![t] = Append(@, bound)], t, Tail(rows))

\* the columns to_sql(index=False) writes for one row of sales_df
SalesSqlRow(r) == [c \in DOMAIN r \ {"index"} |-> r[c]]

\* the order of the DELETE loop and of the to_sql calls
DeleteOrder ==
    <<"sales", "payment_methods", "campaigns", "stores", "products",
      "customers", "dates">>

\* faulty variant of InsertOrder: the facts are written first
InsertOrderFactsFirst ==
    <<"sales", "dates", "customers", "products", "stores", "campaigns",
      "payment_methods">>

InsertOrder ==
    <<"dates", "customers", "products", "stores", "campaigns",
      "payment_methods", "sales">>

\* ------------------------------------------------------------ state
VARIABLES
    clean_dir,      \* CLEAN_DIR: file name -> rows of the cleaned CSV (absent: no file)
    db_disk,        \* DB_PATH: the committed rows of each table
    tables_exist,   \* whether DB_PATH holds the schema
    db_before,      \* db_disk as it was when the run started
    db_conn,        \* the rows the open connection sees (uncommitted work included)
    customers_raw, products_raw, sales_raw,
    customers_df, products_df, sales_df,
    dates_df, stores_df, campaigns_df, methods_df,
    to_sql_i,       \* 1-based position in InsertOrder of the next to_sql call
    sql_log,        \* the statements issued on the connection, in order
    report,         \* the row counts printed after the commit
    error,          \* the exception that ended the run ("" while none)
    pc,             \* position in load_dw
    run,            \* "first" or "second": which run of load_dw on these files this is
    first,          \* how the first run ended: its store, position, error and report
    INPUT_PATH,     \* data/raw/customers_data.csv: whether it exists, and its rows
    OUTPUT_PATH,    \* the rows written to customers_data_with_extra_cols.csv
    script_pc,      \* position in add_columns_to_customers
    df_raw,         \* the frame read_raw / read_raw_csv handed to the cleaner
    clean_df,       \* the cleaner's working frame df, at the end its result clean_df
    cleaner_pc      \* position in clean_sales / clean_customers, or the exception raised

frames == <<customers_raw, products_raw, sales_raw, customers_df, products_df,
            sales_df, dates_df, stores_df, campaigns_df, methods_df>>
store  == <<db_disk, tables_exist, db_conn, to_sql_i, sql_log, report>>
earlier == <<run, first>>
script == <<INPUT_PATH, OUTPUT_PATH, script_pc>>
cleaner == <<df_raw, clean_df, cleaner_pc>>
vars   == <<clean_dir, db_before, frames, store, error, pc, earlier, script, cleaner>>

\* ------------------------------------------------------------ input pools
Saturday == <<2024, 3, 9>>

BaseSale ==
    [TransactionID |-> 1, SaleDate |-> Saturday, CustomerID |-> "C1",
     ProductID |-> "P1", StoreID |-> "S1", CampaignID |-> "K1",
     SaleAmount |-> <<1999>>, Quantity |-> <<200>>, PaymentMethod |-> "Visa"]

\* rows that differ in the keys the customers / products files must cover
KeyRows ==
    {[BaseSale EXCEPT !.TransactionID = ic[1], !.CustomerID = ic[2]] :
        ic \in {<<1, "">>, <<1, "C1">>, <<2, "C1">>, <<2, "C2">>}}

\* rows that differ in the columns normalize_sales corrects: each of StoreID,
\* CampaignID and PaymentMethod empty alone, a bad date beside empty cells and a
\* campaign met nowhere else, and a CampaignID cell that reads "nan"
Blank(row, cols) == [c \in DOMAIN row |-> IF c \in cols THEN "" ELSE row[c]]

FactRows ==
    {Blank(BaseSale, cols) :
        cols \in {{}, {"StoreID"}, {"CampaignID"}, {"PaymentMethod"}}}
    \cup
    {[Blank(BaseSale, {"StoreID", "PaymentMethod"})
         EXCEPT !.SaleDate = <<"text", "not-a-date">>, !.CampaignID = "K2"]}
    \cup
    {[BaseSale EXCEPT !.CampaignID = "nan"]}

NumericRows ==
    {[BaseSale EXCEPT !.Quantity = qa[1], !.SaleAmount = qa[2]] :
        qa \in {<<<< >>, << >>>>, <<<<"text", "abc">>, <<1999>>>>,
                <<<<-250>>, <<1999>>>>}}

CalendarRows ==
    {[BaseSale EXCEPT !.SaleDate = d] :
        d \in {<<2024, 3, 10>>, <<2024, 3, 11>>, <<2023, 12, 31>>,
               <<2024, 2, 30>>, << >>}}

\* a file of rows numbered 1, 2, ... (the cleaner leaves one row per TransactionID)
Numbered(rows) == [i \in 1..Len(rows) |-> [rows[i] EXCEPT !.TransactionID = i]]

CustomerRow(c, opt) ==
    [CustomerID |-> c, Name |-> "Ann", Region |-> "East", JoinDate |-> "2023-01-05",
     LastPurchaseDate |-> "2024-01-05", EmailOptIn |-> opt]

CustomerRows == {CustomerRow("C1", "Yes"), CustomerRow("", "maybe")}

ProductRow(p) ==
    [ProductID |-> p, ProductName |-> "Pen", Category |-> "Office",
     UnitPrice |-> <<999>>, StockLevel |-> <<1250>>, Discontinued |-> "FALSE"]

Dir(c, p, s) ==
    [customers_data_clean |-> c, products_data_clean |-> p, sales_data_clean |-> s]

\* files whose keys vary: sales ids repeat, customers are unknown, missing or doubled
KeyDirs ==
    {Dir(c, p, s) : c \in SeqsUpTo(CustomerRows, MaxDimRows),
                    p \in {<< >>, <<ProductRow("P1")>>},
                    s \in SeqsUpTo(KeyRows, MaxSales)}

\* the files of KeyDirs without customers and products
SalesOnlyDirs == {d \in KeyDirs : d.customers_data_clean = << >>
                                   /\ d.products_data_clean = << >>}

\* files whose fact columns vary, with complete customers and products files
FactDirs ==
    {Dir(<<CustomerRow("C1", "Yes")>>, <<ProductRow("P1")>>, Numbered(s)) :
        s \in SeqsUpTo(FactRows \cup NumericRows \cup CalendarRows, MaxSales)}

\* one of the three files is absent
MissingDirs ==
    LET full == Dir(<<CustomerRow("C1", "Yes")>>, <<ProductRow("P1")>>, <<BaseSale>>)
    IN  {[f \in DOMAIN full \ {gone} |-> full[f]] : gone \in DOMAIN full}

\* customers files whose EmailOptIn cells vary, with no sales
OptTexts == {" Yes ", "NO", "TRUE", "false", "1", "0", "maybe", ""}

CustomerIds == <<"C1", "C2", "C3">>

BoolDirs ==
    {Dir([i \in 1..Len(opts) |-> CustomerRow(CustomerIds[i], opts[i])],
         <<ProductRow("P1")>>, << >>) :
        opts \in SeqsUpTo(OptTexts, MaxDimRows) \ {<< >>}}

\* one of the columns of one of the three files is absent
ColumnDirs ==
    LET full == Dir(<<CustomerRow("C1", "Yes")>>, <<ProductRow("P1")>>, <<BaseSale>>)
    IN  UNION {{[full EXCEPT ![f] =
                    <<[c \in DOMAIN full[f][1] \ {gone} |-> full[f][1][c]]>>] :
                   gone \in DOMAIN full[f][1]} : f \in DOMAIN full}

\* a store left by an earlier load
PriorStore ==
    [dates |-> <<DateRow(ToDatetime(<<2024, 3, 11>>))>>,
     customers |-> <<[customer_id |-> "C1", name |-> "Old", region |-> "West",
                      join_date |-> "2022-02-02", last_purchase_date |-> "2023-03-03",
                      email_opt_in |-> 1]>>,
     products |-> <<[product_id |-> "P2", product_name |-> "Ink", category |-> "Office",
                     unit_price |-> 500, stock_level |-> 3, discontinued |-> 0]>>,
     stores |-> <<[store_id |-> "S2", store_name |-> "", region |-> ""]>>,
     campaigns |-> << >>,
     payment_methods |-> <<[payment_method_id |-> "Cash", method_name |-> "Cash"]>>,
     sales |-> <<[sale_id |-> 1, date |-> <<2024, 3, 11>>, customer_id |-> "C1",
                  product_id |-> "P2", store_id |-> "S2", campaign_id |-> NaN,
                  sales_amount |-> 500, quantity |-> 1, payment_method_id |-> "Cash"]>>]

\* ------------------------------------------------------------ Init
\* no cleaner of src/data_preparation is running
CleanerIdle ==
    /\ df_raw = << >>
    /\ clean_df = << >>
    /\ cleaner_pc = "idle"

\* add_columns_to_customers is not running
ScriptIdle ==
    /\ INPUT_PATH = [exists |-> FALSE, rows |-> << >>]
    /\ OUTPUT_PATH = << >>
    /\ script_pc = "idle"

Init ==
    /\ ScriptIdle
    /\ CleanerIdle
    /\ \/ /\ clean_dir \in KeyDirs
          /\ db_disk = EmptyStore /\ tables_exist = FALSE
       \/ /\ clean_dir \in SalesOnlyDirs
          /\ db_disk = PriorStore /\ tables_exist = TRUE
       \/ /\ clean_dir \in FactDirs \cup MissingDirs \cup ColumnDirs \cup BoolDirs
          /\ db_disk = PriorStore /\ tables_exist = TRUE
    /\ db_before = db_disk
    /\ db_conn = db_disk
    /\ customers_raw = << >> /\ products_raw = << >> /\ sales_raw = << >>
    /\ customers_df = << >> /\ products_df = << >> /\ sales_df = << >>
    /\ dates_df = << >> /\ stores_df = << >>
    /\ campaigns_df = << >> /\ methods_df = << >>
    /\ to_sql_i = 1
    /\ sql_log = << >>
    /\ report = << >>
    /\ error = ""
    /\ pc = "read"
    /\ run = "first"
    /\ first = [db |-> EmptyStore, pc |-> "", error |-> "", report |-> << >>]

\* ------------------------------------------------------------ load_dw
\* the three _read_clean calls
ReadClean ==
    /\ pc = "read"
    /\ IF \E f \in {"customers_data_clean", "products_data_clean", "sales_data_clean"} :
             f \notin DOMAIN clean_dir
       THEN /\ error' = "FileNotFoundError"
            /\ pc' = "failed"
            /\ UNCHANGED frames
       ELSE /\ customers_raw' = ReadCustomersCsv(clean_dir.customers_data_clean)
            /\ products_raw' = ReadProductsCsv(clean_dir.products_data_clean)
            /\ sales_raw' = ReadSalesCsv(clean_dir.sales_data_clean)
            /\ pc' = "normalize"
            /\ UNCHANGED <<customers_df, products_df, sales_df, dates_df, stores_df,
                           campaigns_df, methods_df, error>>
    /\ UNCHANGED <<cleaner, script, earlier, clean_dir, db_before, store>>

\* normalize_customers, normalize_products, normalize_sales
Normalize ==
    /\ pc = "normalize"
    /\ IF NormalizeError(customers_raw, products_raw, sales_raw) # ""
       THEN /\ error' = NormalizeError(customers_raw, products_raw, sales_raw)
            /\ pc' = "failed"
            /\ UNCHANGED <<customers_df, products_df, sales_df>>
       ELSE /\ customers_df' = normalize_customers(customers_raw)
            /\ products_df' = normalize_products(products_raw)
            /\ sales_df' = normalize_sales(sales_raw)
            /\ pc' = "build"
            /\ error' = error
    /\ UNCHANGED <<cleaner, script, earlier, clean_dir, db_before, store, customers_raw, products_raw,
                   sales_raw, dates_df, stores_df, campaigns_df, methods_df>>

\* build_dates_from_sales and the three build_dim_from_sales calls
BuildDims ==
    /\ pc = "build"
    /\ dates_df' = build_dates_from_sales(sales_df)
    /\ stores_df' = build_dim_from_sales(sales_df, "store_id", "stores")
    /\ campaigns_df' = build_dim_from_sales(sales_df, "campaign_id", "campaigns")
    /\ methods_df' = build_dim_from_sales(sales_df, "payment_method_id", "payment_methods")
    /\ pc' = "ensure"
    /\ UNCHANGED <<cleaner, script, earlier, clean_dir, db_before, store, error, customers_raw, products_raw,
                   sales_raw, customers_df, products_df, sales_df>>

\* faulty variant of EnsureDims: customers and products are not patched
EnsureDimsSkeletonsOnly ==
    /\ pc = "ensure"
    /\ stores_df' =
          ensure_dim_covers_sales_keys(sales_df, stores_df, "store_id", StoreDefaults)
    /\ methods_df' =
          ensure_dim_covers_sales_keys(sales_df, methods_df, "payment_method_id",
                                       MethodDefaults)
    /\ campaigns_df' =
          ensure_dim_covers_sales_keys(sales_df, campaigns_df, "campaign_id",
                                       CampaignDefaults)
    /\ pc' = "connect"
    /\ UNCHANGED <<cleaner, script, earlier, clean_dir, db_before, store, error, customers_raw, products_raw,
                   sales_raw, sales_df, dates_df, customers_df, products_df>>

\* the five ensure_dim_covers_sales_keys calls; sales_df[key] raises KeyError
\* when the sales file had no CustomerID or no ProductID column
EnsureDims ==
    /\ pc = "ensure"
    /\ IF \E c \in {"customer_id", "product_id"} : ~HasColumn(sales_df, c)
       THEN /\ error' = "KeyError"
            /\ pc' = "failed"
            /\ UNCHANGED <<stores_df, methods_df, campaigns_df, customers_df, products_df>>
       ELSE /\ stores_df' =
                  ensure_dim_covers_sales_keys(sales_df, stores_df, "store_id",
                                               StoreDefaults)
            /\ methods_df' =
                  ensure_dim_covers_sales_keys(sales_df, methods_df, "payment_method_id",
                                               MethodDefaults)
            /\ campaigns_df' =
                  ensure_dim_covers_sales_keys(sales_df, campaigns_df, "campaign_id",
                                               CampaignDefaults)
            /\ customers_df' =
                  ensure_dim_covers_sales_keys(sales_df, customers_df, "customer_id",
                                               CustomerDefaults)
            /\ products_df' =
                  ensure_dim_covers_sales_keys(sales_df, products_df, "product_id",
                                               ProductDefaults)
            /\ pc' = "connect"
            /\ error' = error
    /\ UNCHANGED <<cleaner, script, earlier, clean_dir, db_before, store, customers_raw, products_raw,
                   sales_raw, sales_df, dates_df>>

\* sqlite3.connect and cur.executescript(DDL): CREATE TABLE IF NOT EXISTS, durable at once
Connect ==
    /\ pc = "connect"
    /\ tables_exist' = TRUE
    /\ db_conn' = db_disk
    /\ sql_log' = Append(sql_log, <<"DDL", "">>)
    /\ pc' = "delete"
    /\ UNCHANGED <<cleaner, script, earlier, clean_dir, db_before, frames, db_disk, to_sql_i, report, error>>

\* faulty variant of DeleteAll: only the fact table is emptied
DeleteOnlySales ==
    /\ pc = "delete"
    /\ db_conn' = [db_conn EXCEPT !["sales"] = << >>]
    /\ sql_log' = sql_log \o [i \in 1..Len(DeleteOrder) |-> <<"DELETE", DeleteOrder[i]>>]
    /\ pc' = "to_sql"
    /\ UNCHANGED <<cleaner, script, earlier, clean_dir, db_before, frames, db_disk, tables_exist, to_sql_i,
                   report, error>>

\* the loop of DELETE FROM statements: they open a transaction and stay uncommitted
DeleteAll ==
    /\ pc = "delete"
    /\ db_conn' = EmptyStore
    /\ sql_log' = sql_log \o [i \in 1..Len(DeleteOrder) |-> <<"DELETE", DeleteOrder[i]>>]
    /\ pc' = "to_sql"
    /\ UNCHANGED <<cleaner, script, earlier, clean_dir, db_before, frames, db_disk, tables_exist, to_sql_i,
                   report, error>>

\* the frame the i-th to_sql call writes
FrameOf(t) ==
    CASE t = "dates"           -> dates_df
      [] t = "customers"       -> customers_df
      [] t = "products"        -> products_df
      [] t = "stores"          -> stores_df
      [] t = "campaigns"       -> campaigns_df
      [] t = "payment_methods" -> methods_df
      [] t = "sales"           -> [i \in 1..Len(sales_df) |-> SalesSqlRow(sales_df[i])]

\* what one DataFrame.to_sql(t, conn, if_exists="append", index=False) leaves:
\* nothing for an empty frame; else the rows inserted and the connection committed,
\* or on an IntegrityError the connection rolled back and the error raised
ToSqlOutcome(conn, disk, t, rows) ==
    LET res == ExecInsert(conn, t, rows)
    IN  IF rows = << >>
        THEN [conn |-> conn, disk |-> disk, error |-> "", log |-> <<<<"to_sql", t>>>>]
        ELSE IF res.error = ""
        THEN [conn |-> res.db, disk |-> res.db, error |-> "",
              log |-> <<<<"to_sql", t>>, <<"COMMIT", t>>>>]
        ELSE [conn |-> disk, disk |-> disk, error |-> res.error,
              log |-> <<<<"to_sql", t>>, <<"ROLLBACK", t>>>>]

\* one of the seven to_sql calls, in InsertOrder
ToSql ==
    /\ pc = "to_sql"
    /\ LET t   == InsertOrder[to_sql_i]
           out == ToSqlOutcome(db_conn, db_disk, t, FrameOf(t))
       IN  /\ db_conn' = out.conn
           /\ db_disk' = out.disk
           /\ sql_log' = sql_log \o out.log
           /\ error' = IF out.error = "" THEN "" ELSE "IntegrityError: " \o out.error
           /\ IF out.error # ""
              THEN pc' = "failed" /\ to_sql_i' = to_sql_i
              ELSE IF to_sql_i = Len(InsertOrder)
              THEN pc' = "commit" /\ to_sql_i' = to_sql_i
              ELSE pc' = "to_sql" /\ to_sql_i' = to_sql_i + 1
    /\ UNCHANGED <<cleaner, script, earlier, clean_dir, db_before, frames, tables_exist, report>>

\* conn.commit()
Commit ==
    /\ pc = "commit"
    /\ db_disk' = db_conn
    /\ sql_log' = Append(sql_log, <<"COMMIT", "">>)
    /\ pc' = "report"
    /\ UNCHANGED <<cleaner, script, earlier, clean_dir, db_before, frames, tables_exist, db_conn, to_sql_i,
                   report, error>>

\* the SELECT COUNT(*) loop
Report ==
    /\ pc = "report"
    /\ report' = [i \in 1..Len(InsertOrder) |->
                    <<InsertOrder[i], Len(db_conn[InsertOrder[i]])>>]
    /\ pc' = "done"
    /\ UNCHANGED <<cleaner, script, earlier, clean_dir, db_before, frames, db_disk, tables_exist, db_conn,
                   to_sql_i, sql_log, error>>

\* load_dw is started again on the same files once the first run has ended
Rerun ==
    /\ pc \in {"done", "failed"}
    /\ run = "first"
    /\ run' = "second"
    /\ first' = [db |-> db_disk, pc |-> pc, error |-> error, report |-> report]
    /\ db_before' = db_disk
    /\ db_conn' = db_disk
    /\ customers_raw' = << >> /\ products_raw' = << >> /\ sales_raw' = << >>
    /\ customers_df' = << >> /\ products_df' = << >> /\ sales_df' = << >>
    /\ dates_df' = << >> /\ stores_df' = << >>
    /\ campaigns_df' = << >> /\ methods_df' = << >>
    /\ to_sql_i' = 1
    /\ sql_log' = << >>
    /\ report' = << >>
    /\ error' = ""
    /\ pc' = "read"
    /\ UNCHANGED <<cleaner, script, clean_dir, db_disk, tables_exist>>

Next ==
    \/ Rerun
    \/ ReadClean
    \/ Normalize
    \/ BuildDims
    \/ EnsureDims
    \/ Connect
    \/ DeleteAll
    \/ ToSql
    \/ Commit
    \/ Report

Spec == Init /\ [][Next]_vars

\* ------------------------------------------------------------ add_columns_to_customers
\* A JoinDate cell is << >> when empty, <<sep, a, b, c>> for digits a, b, c
\* written with separator sep ("2025-11-03" is <<"-", 2025, 11, 3>>,
\* "11/03/2025" is <<"/", 11, 3, 2025>>), and <<"text", t>> for any other text.
\* A datetime is <<days since 1970-01-01>>, None is << >>.
TODAY == <<DaysFromCivil(2025, 11, 3)>>

FloorDate == <<DaysFromCivil(2020, 1, 1)>>

\* datetime.strptime(s, fmt), None where it raises; %Y takes four digits
Strptime(s, fmt) ==
    IF Len(s) # 4 THEN << >>
    ELSE CASE fmt = "%Y-%m-%d" ->
                 IF s[1] = "-" /\ s[2] >= 1000 THEN ToDatetime(<<s[2], s[3], s[4]>>)
                 ELSE << >>
           [] fmt = "%Y/%m/%d" ->
                 IF s[1] = "/" /\ s[2] >= 1000 THEN ToDatetime(<<s[2], s[3], s[4]>>)
                 ELSE << >>
           [] fmt = "%m/%d/%Y" ->
                 IF s[1] = "/" /\ s[2] < 100 /\ s[3] < 100 /\ s[4] >= 1000
                 THEN ToDatetime(<<s[4], s[2], s[3]>>)
                 ELSE << >>

\* parse_date: the first of the three formats that parses, else None
parse_date(s) ==
    IF s = << >> THEN << >>
    ELSE IF Strptime(s, "%Y-%m-%d") # << >> THEN Strptime(s, "%Y-%m-%d")
    ELSE IF Strptime(s, "%Y/%m/%d") # << >> THEN Strptime(s, "%Y/%m/%d")
    ELSE Strptime(s, "%m/%d/%Y")

\* format_date: the "%Y-%m-%d" text of a datetime, as <<y, m, d>>
format_date(d) == CivilFromDays(d[1])

\* start = join_date or datetime(2020, 1, 1), clamped so it is not after TODAY
StartDate(join_date) ==
    LET start == IF join_date # << >> THEN join_date ELSE FloorDate
    IN  IF start[1] > TODAY[1] THEN TODAY ELSE start

\* days_range = max(1, (TODAY - start).days)
DaysRange(start) ==
    IF TODAY[1] - start[1] > 1 THEN TODAY[1] - start[1] ELSE 1

\* the values rng.randint(0, days_range) is followed over: the generator is
\* seeded from a hash of the customer id, so each value of the interval is drawn
\* for some id; its two ends and 1 are kept
Randint(lo, hi) == {k \in {lo, lo + 1, hi} : lo <= k /\ k <= hi}

\* raw customers files
JoinDates ==
    {<< >>, <<"text", "soon">>, <<"-", 2025, 2, 30>>, <<"-", 2025, 11, 1>>,
     <<"-", 2025, 11, 3>>, <<"/", 2025, 12, 25>>, <<"/", 10, 31, 2025>>}

RawFiles ==
    {[i \in 1..Len(jds) |->
         [CustomerID |-> CustomerIds[i], Name |-> "Ann", JoinDate |-> jds[i]]] :
        jds \in SeqsUpTo(JoinDates, MaxDimRows)}

\* load_dw is not running
LoadIdle ==
    /\ clean_dir = Dir(<< >>, << >>, << >>)
    /\ db_disk = EmptyStore /\ tables_exist = FALSE
    /\ db_before = db_disk
    /\ db_conn = db_disk
    /\ customers_raw = << >> /\ products_raw = << >> /\ sales_raw = << >>
    /\ customers_df = << >> /\ products_df = << >> /\ sales_df = << >>
    /\ dates_df = << >> /\ stores_df = << >>
    /\ campaigns_df = << >> /\ methods_df = << >>
    /\ to_sql_i = 1
    /\ sql_log = << >>
    /\ report = << >>
    /\ error = ""
    /\ pc = "idle"
    /\ run = "first"
    /\ first = [db |-> EmptyStore, pc |-> "", error |-> "", report |-> << >>]

AugmentInit ==
    /\ LoadIdle
    /\ CleanerIdle
    /\ \/ INPUT_PATH = [exists |-> FALSE, rows |-> << >>]
       \/ \E f \in RawFiles : INPUT_PATH = [exists |-> TRUE, rows |-> f]
    /\ OUTPUT_PATH = << >>
    /\ script_pc = "guard"

load == <<clean_dir, db_before, frames, store, error, pc, earlier>>

\* the guardrail, and the opening of the reader and of the writer
AugmentOpen ==
    /\ script_pc = "guard"
    /\ IF INPUT_PATH.exists
       THEN script_pc' = "rows" /\ OUTPUT_PATH' = << >>
       ELSE script_pc' = "FileNotFoundError" /\ OUTPUT_PATH' = OUTPUT_PATH
    /\ UNCHANGED <<cleaner, load, INPUT_PATH>>

\* one turn of the loop over the reader: the next row is given its two columns
\* and written
AugmentRow ==
    /\ script_pc = "rows"
    /\ Len(OUTPUT_PATH) < Len(INPUT_PATH.rows)
    /\ LET row        == INPUT_PATH.rows[Len(OUTPUT_PATH) + 1]
           join_date  == parse_date(row.JoinDate)
           start      == StartDate(join_date)
           days_range == DaysRange(start)
       IN  \E k \in Randint(0, days_range), opt \in {"yes", "no"} :
              OUTPUT_PATH' =
                 Append(OUTPUT_PATH,
                        [CustomerID |-> row.CustomerID, Name |-> row.Name,
                         JoinDate |-> row.JoinDate,
                         LastPurchaseDate |-> format_date(<<start[1] + k>>),
                         EmailOptIn |-> opt])
    /\ UNCHANGED <<cleaner, load, INPUT_PATH, script_pc>>

\* the reader is exhausted: the files are closed and the paths are printed
AugmentClose ==
    /\ script_pc = "rows"
    /\ Len(OUTPUT_PATH) = Len(INPUT_PATH.rows)
    /\ script_pc' = "done"
    /\ UNCHANGED <<cleaner, load, INPUT_PATH, OUTPUT_PATH>>

AugmentNext ==
    \/ AugmentOpen
    \/ AugmentRow
    \/ AugmentClose

AugmentSpec == AugmentInit /\ [][AugmentNext]_vars

\* ------------------------------------------------------------ prepare_sales_data
\* The sales cleaner: main reads data/raw/sales_data.csv with read_raw and
\* hands the frame to clean_sales (specification SalesCleanSpec).  A raw file is
\* the sequence of its rows over the columns of its header.  Identifier and
\* payment cells are texts; SaleDate, SaleAmount and Quantity cells keep the
\* tuple form of the loader's files.  SaleAmount is counted in hundredths up to
\* coerce_types, in two-hundredths between the imputation and the rounding (the
\* median of two amounts is then a whole number) and in hundredths again after
\* round(2); Quantity is counted in hundredths up to round(0) and in whole
\* units after astype(int).
SALES_EXPECTED_COLUMNS ==
    {"TransactionID", "SaleDate", "CustomerID", "ProductID", "StoreID",
     "CampaignID", "SaleAmount", "Quantity", "PaymentMethod"}

PAYMENT_CANON ==
    [visa |-> "Visa", mastercard |-> "Mastercard", amex |-> "Amex",
     americanexpress |-> "Amex", discover |-> "Discover", cash |-> "Cash",
     applepay |-> "ApplePay", googlepay |-> "GooglePay"]

\* str.strip() on the texts of the pools
Strip(s) ==
    CASE s \in {" T1", "T1 "}  -> "T1"
      [] s = " C1"             -> "C1"
      [] s = " visa "          -> "visa"
      [] s = " Quantity"       -> "Quantity"
      [] s = " Ann  Lee "      -> "Ann  Lee"
      [] s \in {" ", "  "}     -> ""
      [] OTHER                 -> s

\* str(pm).strip().lower().replace(" ", "") on the texts of the pools
PaymentKey(s) ==
    CASE Strip(s) \in {"Visa", "visa"} -> "visa"
      [] Strip(s) = "Cash"             -> "cash"
      [] Strip(s) = "Apple Pay"        -> "applepay"
      [] Strip(s) = "Check"            -> "check"
      [] OTHER                         -> Strip(s)

\* read_raw: pd.read_csv (empty and NA-literal text cells become NaN) and the
\* stripping of the header's names
read_raw(file) ==
    [i \in 1..Len(file) |->
        [c \in {Strip(h) : h \in DOMAIN file[i]} |->
            LET h == CHOOSE h \in DOMAIN file[i] : Strip(h) = c
            IN  IF c \in {"SaleDate", "SaleAmount", "Quantity"}
                THEN file[i][h]
                ELSE ReadCsvCell(file[i][h])]]

normalize_payment(pm) ==
    IF IsNa(pm) \/ Strip(pm) = "" THEN "Unknown"
    ELSE IF PaymentKey(pm) \in DOMAIN PAYMENT_CANON THEN PAYMENT_CANON[PaymentKey(pm)]
    ELSE "Unknown"

\* the rows of a frame at the positions in keep, in the frame's order
RECURSIVE RowsAt(_, _, _)
RowsAt(frame, keep, i) ==
    IF i > Len(frame) THEN << >>
    ELSE (IF i \in keep THEN <<frame[i]>> ELSE << >>) \o RowsAt(frame, keep, i + 1)

\* remove_duplicates of prepare_sales_data: drop_duplicates keeps the first row
\* of each TransactionID (NaN equals NaN there), or of each whole row
sales_remove_duplicates(frame) ==
    LET same(i, j) ==
            IF HasColumn(frame, "TransactionID")
            THEN frame[i].TransactionID = frame[j].TransactionID
            ELSE frame[i] = frame[j]
    IN  RowsAt(frame, {i \in 1..Len(frame) : \A j \in 1..(i - 1) : ~same(i, j)}, 1)

\* coerce_types on one row
CoerceSalesRow(r) ==
    [c \in DOMAIN r |->
        CASE c \in {"TransactionID", "CustomerID", "ProductID", "StoreID", "CampaignID"} ->
                Strip(AsStr(r[c]))
          [] c \in {"SaleAmount", "Quantity"} -> ToNumeric(r[c])
          [] c = "SaleDate"                   -> ToDatetime(r[c])
          [] c = "PaymentMethod"              -> normalize_payment(r[c])
          [] OTHER                            -> r[c]]

coerce_types(frame) == [i \in 1..Len(frame) |-> CoerceSalesRow(frame[i])]

\* the numbers of a sequence in ascending order
SortNumbers(s) == Values(SortValues([i \in 1..Len(s) |-> <<<<s[i]>>, s[i]>>]))

\* twice Series.median() of a non-empty sequence of numbers
TwiceMedian(s) ==
    LET o == SortNumbers(s)
        n == Len(o)
    IN  IF n % 2 = 1 THEN 2 * o[(n + 1) \div 2] ELSE o[n \div 2] + o[n \div 2 + 1]

\* handle_missing_and_rules of prepare_sales_data
sales_handle_missing_and_rules(frame) ==
    LET ids   == SelectSeq(frame, LAMBDA r : /\ Strip(r.TransactionID) # ""
                                             /\ Strip(r.CustomerID) # ""
                                             /\ Strip(r.ProductID) # "")
        dated == SelectSeq(ids, LAMBDA r : r.SaleDate # NaT)
        known == SelectSeq([i \in 1..Len(dated) |-> dated[i].SaleAmount],
                           LAMBDA a : a # << >>)
        fill  == IF known = << >> THEN 0
                 ELSE TwiceMedian([i \in 1..Len(known) |-> known[i][1]])
    IN  [i \in 1..Len(dated) |->
            [dated[i] EXCEPT
                !.SaleAmount = IF @ = << >> THEN <<fill>> ELSE <<2 * @[1]>>,
                !.Quantity   = IF @ = << >> THEN <<100>>
                               ELSE IF @[1] < 100 THEN <<100>> ELSE @]]

\* Series.round on a number counted in d-ths of the unit: the nearest whole
\* number of units, a tie going to the even one
RoundHalfEven(n, d) ==
    LET q == n \div d
        r == n % d
    IN  IF 2 * r < d THEN q
        ELSE IF 2 * r > d THEN q + 1
        ELSE IF q % 2 = 0 THEN q ELSE q + 1

\* the range of the integer type astype(int) casts to
IntMax == 2 ^ (IntBits - 1) - 1
IntMin == -(2 ^ (IntBits - 1))
\* what the float -> int cast can leave for a number outside that range
\* (the conversion is undefined there: the smallest integer on x86, the
\* nearest bound where the conversion saturates)
OutOfRange(u) ==
    IF u > IntMax THEN {IntMin, IntMax} ELSE IF u < IntMin THEN {IntMin} ELSE {}

\* astype(int) on one whole float, wrapped being what an out-of-range cast left
AsTypeInt(u, wrapped) == IF IntMin <= u /\ u <= IntMax THEN u ELSE wrapped

\* four times Series.quantile(k / 4) (linear interpolation) of a sorted sequence
Quantile4(o, k) ==
    LET p  == (Len(o) - 1) * k
        lo == p \div 4 + 1
        f  == p % 4
    IN  IF f = 0 THEN 4 * o[lo] ELSE (4 - f) * o[lo] + f * o[lo + 1]

\* one round of the IQR trimming loop of validate_and_finalize
IqrTrim(frame, col) ==
    LET o      == SortNumbers([i \in 1..Len(frame) |-> frame[i][col][1]])
        Q1     == Quantile4(o, 1)
        Q3     == Quantile4(o, 3)
        lower8 == 2 * Q1 - 3 * (Q3 - Q1)
        upper8 == 2 * Q3 + 3 * (Q3 - Q1)
    IN  IF Len(frame) < MIN_TRIM_ROWS THEN frame
        ELSE SelectSeq(frame, LAMBDA r : /\ 8 * r[col][1] >= lower8
                                         /\ 8 * r[col][1] <= upper8)

validate_and_finalize(frame, wrapped) ==
    LET typed == [i \in 1..Len(frame) |->
                    [frame[i] EXCEPT
                        !.SaleAmount = <<RoundHalfEven(IF @[1] < 0 THEN 0 ELSE @[1], 2)>>,
                        !.Quantity   = <<AsTypeInt(RoundHalfEven(@[1], 100), wrapped)>>]]
    IN  IqrTrim(IqrTrim(typed, "SaleAmount"), "Quantity")

\* ---- raw sales files
RawSale ==
    [TransactionID |-> "T1", SaleDate |-> Saturday, CustomerID |-> "C1",
     ProductID |-> "P1", StoreID |-> "S1", CampaignID |-> "K1",
     SaleAmount |-> <<1000>>, Quantity |-> <<200>>, PaymentMethod |-> "Visa"]

\* rows that differ in their identifiers and payment texts
IdRows ==
    {[RawSale EXCEPT !.TransactionID = t] : t \in {"T1", " T1", "T2", "", "  "}}
    \cup {[RawSale EXCEPT !.TransactionID = "T2", !.CustomerID = c] : c \in {"", "  ", " C1"}}
    \cup {[RawSale EXCEPT !.TransactionID = "T2", !.ProductID = p] : p \in {"", "  "}}
    \cup {[RawSale EXCEPT !.TransactionID = "T2", !.PaymentMethod = m] :
             m \in {" visa ", "Apple Pay", "Check", ""}}

\* a quantity of 100000 units, beyond the integer type of the model
Huge == <<10000000>>

\* rows that differ in their numbers and dates
NumberRows ==
    {[RawSale EXCEPT !.Quantity = q] :
        q \in {<< >>, <<"text", "abc">>, <<0>>, <<-200>>, <<40>>, <<149>>, <<150>>,
               <<250>>, Huge}}
    \cup {[RawSale EXCEPT !.SaleAmount = a] :
             a \in {<< >>, <<"text", "abc">>, <<-500>>, <<1001>>}}
    \cup {[RawSale EXCEPT !.SaleDate = d] : d \in {<< >>, <<2024, 2, 30>>}}

TransactionIds == <<"T1", "T2", "T3", "T4">>

\* rows given one TransactionID each, T1, T2, ... in the order of the file
Renumbered(rows) == [i \in 1..Len(rows) |-> [rows[i] EXCEPT !.TransactionID = TransactionIds[i]]]

\* ten ordinary sales, enough with one more row for the IQR trimming to run
BulkQuantities == <<100, 100, 200, 200, 200, 200, 300, 300, 300, 400>>
BulkAmounts == <<1000, 1000, 1001, 1002, 1500, 1500, 2000, 2000, 2500, 3000>>
BulkIds == <<"B1", "B2", "B3", "B4", "B5", "B6", "B7", "B8", "B9", "B10">>
BulkRows ==
    [i \in 1..Len(BulkIds) |->
        [RawSale EXCEPT !.TransactionID = BulkIds[i],
                        !.Quantity = <<BulkQuantities[i]>>,
                        !.SaleAmount = <<BulkAmounts[i]>>]]

ExtraRows ==
    {[RawSale EXCEPT !.Quantity = q] : q \in {<<200>>, <<5000>>, <<0>>, Huge}}
    \cup {[RawSale EXCEPT !.SaleAmount = a] : a \in {<<100000>>, << >>}}

\* a file without one of the expected columns
Without(row, col) == [c \in DOMAIN row \ {col} |-> row[c]]

RawSalesFiles ==
    SeqsUpTo(IdRows, MaxRawRows)
    \cup {Renumbered(s) : s \in SeqsUpTo(NumberRows, MaxRawRows)}
    \cup {BulkRows \o Renumbered(s) : s \in SeqsUpTo(ExtraRows, MaxRawRows) \ {<< >>}}
    \cup {<<Without(RawSale, c)>> : c \in SALES_EXPECTED_COLUMNS}
    \cup {<<[c \in (SALES_EXPECTED_COLUMNS \ {"Quantity"}) \cup {" Quantity"} |->
               IF c = " Quantity" THEN <<200>> ELSE RawSale[c]]>>}

\* ---- clean_sales
SalesCleanInit ==
    /\ LoadIdle
    /\ ScriptIdle
    /\ df_raw \in {read_raw(f) : f \in RawSalesFiles}
    /\ clean_df = << >>
    /\ cleaner_pc = "clean_sales"

\* the guard on the expected columns, and df = df_raw.copy()
CleanSalesGuard ==
    /\ cleaner_pc = "clean_sales"
    /\ IF \E c \in SALES_EXPECTED_COLUMNS : ~HasColumn(df_raw, c)
       THEN /\ cleaner_pc' = "ValueError"
            /\ UNCHANGED clean_df
       ELSE /\ clean_df' = df_raw
            /\ cleaner_pc' = "remove_duplicates"
    /\ UNCHANGED <<load, script, df_raw>>

SalesRemoveDuplicates ==
    /\ cleaner_pc = "remove_duplicates"
    /\ clean_df' = sales_remove_duplicates(clean_df)
    /\ cleaner_pc' = "coerce_types"
    /\ UNCHANGED <<load, script, df_raw>>

SalesCoerceTypes ==
    /\ cleaner_pc = "coerce_types"
    /\ clean_df' = coerce_types(clean_df)
    /\ cleaner_pc' = "handle_missing_and_rules"
    /\ UNCHANGED <<load, script, df_raw>>

SalesHandleMissing ==
    /\ cleaner_pc = "handle_missing_and_rules"
    /\ clean_df' = sales_handle_missing_and_rules(clean_df)
    /\ cleaner_pc' = "validate_and_finalize"
    /\ UNCHANGED <<load, script, df_raw>>

\* validate_and_finalize and reset_index(drop=True); clean_sales returns
SalesValidate ==
    /\ cleaner_pc = "validate_and_finalize"
    /\ LET outcomes == UNION {OutOfRange(RoundHalfEven(clean_df[i].Quantity[1], 100)) :
                                 i \in 1..Len(clean_df)}
       IN  \E wrapped \in (IF outcomes = {} THEN {IntMin} ELSE outcomes) :
              clean_df' = validate_and_finalize(clean_df, wrapped)
    /\ cleaner_pc' = "clean_sales returned"
    /\ UNCHANGED <<load, script, df_raw>>

SalesCleanNext ==
    \/ CleanSalesGuard
    \/ SalesRemoveDuplicates
    \/ SalesCoerceTypes
    \/ SalesHandleMissing
    \/ SalesValidate

SalesCleanSpec == SalesCleanInit /\ [][SalesCleanNext]_vars

\* ------------------------------------------------------------ prepare_customers_data
\* The customers cleaner: main reads data/raw/customers_data.csv with
\* read_raw_csv (every column as text) and hands the frame to clean_customers
\* (specification CustomersCleanSpec).  JoinDate and LastPurchaseDate cells
\* keep the tuple form of a date text until coerce_dates parses them.
CUSTOMERS_EXPECTED_COLUMNS ==
    {"CustomerID", "Name", "Region", "JoinDate", "LastPurchaseDate", "EmailOptIn"}

REGION_MAP ==
    ("north" :> "North") @@ ("south" :> "South") @@ ("east" :> "East")
    @@ ("west" :> "West") @@ ("central" :> "Central")
    @@ ("northeast" :> "North-East") @@ ("north-east" :> "North-East")
    @@ ("southwest" :> "South-West") @@ ("south-west" :> "South-West")

TRUTHY == {"y", "yes", "true", "1", "t"}
FALSY == {"n", "no", "false", "0", "f", ""}

\* read_raw_csv: pd.read_csv(dtype=str) and the stripping of the header's names
read_raw_csv(file) ==
    [i \in 1..Len(file) |->
        [c \in {Strip(h) : h \in DOMAIN file[i]} |->
            LET h == CHOOSE h \in DOMAIN file[i] : Strip(h) = c
            IN  IF c \in {"JoinDate", "LastPurchaseDate"}
                THEN file[i][h]
                ELSE ReadCsvCell(file[i][h])]]

\* coerce_dates on one row
CoerceDatesRow(r) ==
    [c \in DOMAIN r |->
        IF c \in {"JoinDate", "LastPurchaseDate"} THEN ToDatetime(r[c]) ELSE r[c]]

coerce_dates(frame) == [i \in 1..Len(frame) |-> CoerceDatesRow(frame[i])]

\* str(val).strip().lower().replace(" ", "").replace("_", "") on the texts of the pools
RegionKey(s) ==
    CASE s \in {"north", "North"} -> "north"
      [] s = " East "             -> "east"
      [] s = "South West"         -> "southwest"
      [] s = "north_east"         -> "northeast"
      [] OTHER                    -> s

\* str(val).strip().title() on the texts of the pools
StripTitle(s) ==
    CASE s = "midwest" -> "Midwest"
      [] s = " East "  -> "East"
      [] OTHER         -> s

normalize_region(val) ==
    IF IsNa(val) THEN "Unknown"
    ELSE IF RegionKey(val) \in DOMAIN REGION_MAP THEN REGION_MAP[RegionKey(val)]
    ELSE StripTitle(val)

normalize_email_opt_in(val) ==
    IF IsNa(val) THEN "no"
    ELSE IF StripLower(val) \in TRUTHY THEN "yes"
    ELSE IF StripLower(val) \in FALSY THEN "no"
    ELSE "no"

\* the CustomerID texts the cleaner can sort, in ascending string order
CustomerIdOrder == <<"", "C1", "C2", "nan">>

\* the sort key of sort_values(by=["CustomerID", "LastPurchaseDate"],
\* ascending=[True, False]): NaT comes last within a CustomerID
DedupSortKey(r) ==
    <<CHOOSE k \in 1..Len(CustomerIdOrder) : CustomerIdOrder[k] = r.CustomerID,
      IF r.LastPurchaseDate = NaT THEN 1 ELSE 0,
      IF r.LastPurchaseDate = NaT THEN 0 ELSE -r.LastPurchaseDate[1]>>

\* remove_duplicates of prepare_customers_data: the row of each CustomerID
\* with the latest LastPurchaseDate
customers_remove_duplicates(frame) ==
    IF ~HasColumn(frame, "CustomerID") THEN frame
    ELSE LET sorted_df == Values(SortValues([i \in 1..Len(frame) |->
                                                <<DedupSortKey(frame[i]), frame[i]>>]))
         IN  RowsAt(sorted_df,
                    {i \in 1..Len(sorted_df) :
                        \A j \in 1..(i - 1) : sorted_df[j].CustomerID # sorted_df[i].CustomerID},
                    1)

\* astype(str).str.strip().replace(r"\s+", " ", regex=True) on the names of the pools
CleanName(s) == IF Strip(s) = "Ann  Lee" THEN "Ann Lee" ELSE Strip(s)

\* faulty variant of CustomerRules: the dates are never swapped
CustomerRulesNoSwap(r) ==
    LET lpd == IF r.LastPurchaseDate = NaT THEN r.JoinDate ELSE r.LastPurchaseDate
    IN  [r EXCEPT !.Region = normalize_region(@),
                  !.EmailOptIn = normalize_email_opt_in(@),
                  !.LastPurchaseDate = lpd,
                  !.Name = CleanName(AsStr(@))]

\* the rules of handle_missing_and_rules on one kept row
CustomerRules(r) ==
    LET lpd  == IF r.LastPurchaseDate = NaT THEN r.JoinDate ELSE r.LastPurchaseDate
        mask == lpd # NaT /\ r.JoinDate # NaT /\ lpd[1] < r.JoinDate[1]
    IN  [r EXCEPT !.Region = normalize_region(@),
                  !.EmailOptIn = normalize_email_opt_in(@),
                  !.JoinDate = IF mask THEN lpd ELSE @,
                  !.LastPurchaseDate = IF mask THEN r.JoinDate ELSE lpd,
                  !.Name = CleanName(AsStr(@))]

\* handle_missing_and_rules of prepare_customers_data
customers_handle_missing_and_rules(frame) ==
    LET required == SelectSeq(frame, LAMBDA r : /\ Strip(AsStr(r.CustomerID)) # ""
                                                /\ Strip(AsStr(r.Name)) # ""
                                                /\ r.JoinDate # NaT)
    IN  [i \in 1..Len(required) |-> CustomerRules(required[i])]

\* ---- raw customers files
RawCustomer ==
    [CustomerID |-> "C1", Name |-> "Ann", Region |-> "north",
     JoinDate |-> <<2024, 1, 10>>, LastPurchaseDate |-> <<2024, 3, 9>>,
     EmailOptIn |-> " Yes "]

\* rows that differ in their dates
DatedRows ==
    {[RawCustomer EXCEPT !.CustomerID = c, !.JoinDate = j, !.LastPurchaseDate = l] :
        c \in {"C1", "C2"},
        j \in {<<2024, 1, 10>>, <<2024, 3, 9>>, << >>},
        l \in {<<2024, 1, 5>>, <<2024, 3, 9>>, <<"text", "soon">>, << >>}}

\* rows that differ in their texts
TextRows ==
    {[RawCustomer EXCEPT !.CustomerID = c] : c \in {" C1", "", "  "}}
    \cup {[RawCustomer EXCEPT !.Name = n] : n \in {" Ann  Lee ", "", "  "}}
    \cup {[RawCustomer EXCEPT !.CustomerID = "C2", !.Region = g] :
             g \in {" East ", "South West", "north_east", "midwest", ""}}
    \cup {[RawCustomer EXCEPT !.CustomerID = "C2", !.EmailOptIn = e] :
             e \in {"TRUE", "NO", "maybe", ""}}

RawCustomersFiles ==
    SeqsUpTo(DatedRows, MaxRawRows)
    \cup SeqsUpTo(TextRows, MaxRawRows)
    \cup {<<Without(RawCustomer, c)>> : c \in CUSTOMERS_EXPECTED_COLUMNS}

\* ---- clean_customers
CustomersCleanInit ==
    /\ LoadIdle
    /\ ScriptIdle
    /\ df_raw \in {read_raw_csv(f) : f \in RawCustomersFiles}
    /\ clean_df = << >>
    /\ cleaner_pc = "clean_customers"

\* the guard on the expected columns, df = df_raw.copy() and the trimming of
\* CustomerID
CleanCustomersGuard ==
    /\ cleaner_pc = "clean_customers"
    /\ IF \E c \in CUSTOMERS_EXPECTED_COLUMNS : ~HasColumn(df_raw, c)
       THEN /\ cleaner_pc' = "ValueError"
            /\ UNCHANGED clean_df
       ELSE /\ clean_df' = [i \in 1..Len(df_raw) |->
                               [df_raw[i] EXCEPT !.CustomerID = Strip(AsStr(@))]]
            /\ cleaner_pc' = "coerce_dates"
    /\ UNCHANGED <<load, script, df_raw>>

CustomersCoerceDates ==
    /\ cleaner_pc = "coerce_dates"
    /\ clean_df' = coerce_dates(clean_df)
    /\ cleaner_pc' = "remove_duplicates of customers"
    /\ UNCHANGED <<load, script, df_raw>>

CustomersRemoveDuplicates ==
    /\ cleaner_pc = "remove_duplicates of customers"
    /\ clean_df' = customers_remove_duplicates(clean_df)
    /\ cleaner_pc' = "handle_missing_and_rules of customers"
    /\ UNCHANGED <<load, script, df_raw>>

CustomersHandleMissing ==
    /\ cleaner_pc = "handle_missing_and_rules of customers"
    /\ clean_df' = customers_handle_missing_and_rules(clean_df)
    /\ cleaner_pc' = "final_order"
    /\ UNCHANGED <<load, script, df_raw>>

\* final_order (the columns are all expected ones: their order is not part of
\* a row) and reset_index(drop=True); clean_customers returns
CustomersFinalOrder ==
    /\ cleaner_pc = "final_order"
    /\ cleaner_pc' = "clean_customers returned"
    /\ UNCHANGED <<load, script, df_raw, clean_df>>

CustomersCleanNext ==
    \/ CleanCustomersGuard
    \/ CustomersCoerceDates
    \/ CustomersRemoveDuplicates
    \/ CustomersHandleMissing
    \/ CustomersFinalOrder

CustomersCleanSpec == CustomersCleanInit /\ [][CustomersCleanNext]_vars

\* ------------------------------------------------------------ properties
\* positions of load_dw
PreconditionErrors == {"FileNotFoundError", "KeyError", "AttributeError"}
Normalized == pc \in {"build", "ensure", "connect", "delete", "to_sql", "commit",
                      "report", "done"}
                \/ (pc = "failed" /\ error \notin PreconditionErrors)
Built      == Normalized /\ pc # "build"
Ensured    == Built /\ pc # "ensure"
WriteFailed == pc = "failed" /\ error \notin PreconditionErrors

\* every non-null value of column key in the facts is, as a string, a key of dim
Covers(dim, key) ==
    \A i \in 1..Len(sales_df) :
        sales_df[i][key] # NaN =>
            \E j \in 1..Len(dim) : AsStr(dim[j][key]) = AsStr(sales_df[i][key])

\* C1: referential closure. Once the five ensure_dim_covers_sales_keys calls have
\* run, every non-null customer_id, product_id, store_id, campaign_id and
\* payment_method_id of the fact table is (as a string) a key of its dimension
\* table, whatever the fact table and the starting dimension (empty included).
C1_Closure ==
    Ensured =>
        /\ Covers(customers_df, "customer_id")
        /\ Covers(products_df, "product_id")
        /\ Covers(stores_df, "store_id")
        /\ Covers(campaigns_df, "campaign_id")
        /\ Covers(methods_df, "payment_method_id")

\* a closed state whose products file was empty and whose customers were patched
C1_Witness ==
    /\ pc = "connect"
    /\ products_raw = << >>
    /\ Len(products_df) > 0
    /\ Len(customers_raw) > 0
    /\ Len(customers_df) > Len(customers_raw)

\* C2: rollback on failure. When an insert of the write step fails, the
\* persisted store holds exactly the rows it held before the run started.
C2_RollbackOnFailure == WriteFailed => db_disk = db_before

\* C3: single transaction. No commit happens between the first DELETE and the
\* last INSERT: until the final commit the persisted store is the one the run
\* found, and every COMMIT in the statement log follows all seven to_sql calls.
C3_SingleTransaction ==
    /\ pc \in {"delete", "to_sql", "commit"} => db_disk = db_before
    /\ \A i \in 1..Len(sql_log) :
          sql_log[i][1] = "COMMIT" =>
             Cardinality({j \in 1..i : sql_log[j][1] = "to_sql"}) = Len(InsertOrder)

\* C4: enforcer idempotence. Applying ensure_dim_covers_sales_keys to the facts
\* and to the result of a first application returns that result unchanged.
C4_Idempotent ==
    Ensured =>
        /\ ensure_dim_covers_sales_keys(sales_df, customers_df, "customer_id",
                                        CustomerDefaults) = customers_df
        /\ ensure_dim_covers_sales_keys(sales_df, products_df, "product_id",
                                        ProductDefaults) = products_df
        /\ ensure_dim_covers_sales_keys(sales_df, stores_df, "store_id",
                                        StoreDefaults) = stores_df
        /\ ensure_dim_covers_sales_keys(sales_df, campaigns_df, "campaign_id",
                                        CampaignDefaults) = campaigns_df
        /\ ensure_dim_covers_sales_keys(sales_df, methods_df, "payment_method_id",
                                        MethodDefaults) = methods_df

\* a first application that added two customer rows to a non-empty dimension
C4_Witness ==
    /\ Ensured
    /\ Len(customers_raw) > 0
    /\ Len(customers_df) = Len(customers_raw) + 2

\* the tables of the log entries of one kind, in order
LogTables(op) ==
    LET hits == SelectSeq(sql_log, LAMBDA e : e[1] = op)
    IN  [i \in 1..Len(hits) |-> hits[i][2]]

Dimensions == Tables \ {"sales"}

\* C5: write ordering. sales is the first table deleted from and the last one
\* inserted into, every dimension table is inserted before sales, every delete
\* precedes every insert, and the insert order is the reverse of the delete order.
C5_WriteOrder ==
    LET dels == LogTables("DELETE")
        inss == LogTables("to_sql")
    IN  /\ dels # << >> => dels[1] = "sales"
        /\ \A i, j \in 1..Len(sql_log) :
              sql_log[i][1] = "DELETE" /\ sql_log[j][1] = "to_sql" => i < j
        /\ \A i \in 1..Len(inss) : inss[i] = dels[Len(dels) + 1 - i]
        /\ \A i \in 1..Len(inss) :
              inss[i] = "sales" =>
                 /\ i = Len(inss)
                 /\ Dimensions \subseteq {inss[j] : j \in 1..(i - 1)}
        /\ pc \in {"commit", "report", "done"} =>
              /\ Len(inss) = Len(dels)
              /\ Len(dels) = Cardinality(Tables)
              /\ inss[Len(inss)] = "sales"

\* a finished load that wrote fact rows
C5_Witness == pc = "done" /\ Len(db_disk["sales"]) = MaxSales

\* the texts strptime accepts for "%Y-%m-%d": a month 1..12 and a day that month has
IsCalendarDate(cell) ==
    /\ Len(cell) = 3
    /\ \E m \in 1..12, d \in 1..31 :
          /\ cell[2] = m /\ cell[3] = d
          /\ \/ d <= 28
             \/ d \in {29, 30} /\ m # 2
             \/ d = 31 /\ m \in {1, 3, 5, 7, 8, 10, 12}
             \/ d = 29 /\ m = 2 /\ cell[1] % 4 = 0
                /\ (cell[1] % 100 # 0 \/ cell[1] % 400 = 0)

BadDateRows == {i \in 1..Len(sales_raw) : ~IsCalendarDate(sales_raw[i].SaleDate)}

\* C6: no fact loss except invalid dates. normalize_sales returns as many rows
\* as it was given minus the rows whose SaleDate does not parse; a row is
\* excluded iff its date fails to parse, and no other correction removes or
\* adds a row.
C6_NoFactLoss ==
    Normalized =>
        /\ Len(sales_df) = Len(sales_raw) - Cardinality(BadDateRows)
        /\ {sales_df[i].index + 1 : i \in 1..Len(sales_df)}
              = (1..Len(sales_raw)) \ BadDateRows
        /\ \A i, j \in 1..Len(sales_df) : i < j => sales_df[i].index < sales_df[j].index

\* a bad-date row was dropped while a row with a non-numeric quantity was kept
C6_Witness ==
    /\ pc = "build"
    /\ BadDateRows # {}
    /\ Len(sales_df) = 1
    /\ Len(sales_raw[sales_df[1].index + 1].Quantity) # 1

\* day of the week by Zeller's congruence: 0 = Saturday, 1 = Sunday, ...
Zeller(date) ==
    LET y == IF date[2] < 3 THEN date[1] - 1 ELSE date[1]
        m == IF date[2] < 3 THEN date[2] + 12 ELSE date[2]
        k == y % 100
        j == y \div 100
    IN  (date[3] + (13 * (m + 1)) \div 5 + k + k \div 4 + j \div 4 + 5 * j) % 7

\* C7: calendar completeness. build_dates_from_sales returns exactly one row per
\* distinct valid date of the fact table, no row for a date the facts lack, and
\* is_weekend = 1 in a row iff its date is a Saturday or a Sunday.
C7_Calendar ==
    Built =>
        /\ \A i \in 1..Len(sales_df) :
              Cardinality({j \in 1..Len(dates_df) :
                              dates_df[j].date = sales_df[i].date}) = 1
        /\ \A j \in 1..Len(dates_df) :
              /\ \E i \in 1..Len(sales_df) : sales_df[i].date = dates_df[j].date
              /\ dates_df[j].is_weekend \in {0, 1}
              /\ dates_df[j].is_weekend = 1 <=> Zeller(dates_df[j].date) \in {0, 1}

\* a calendar with a weekend day and a working day
C7_Witness ==
    /\ pc = "ensure"
    /\ \E j \in 1..Len(dates_df) : dates_df[j].is_weekend = 1
    /\ \E j \in 1..Len(dates_df) : dates_df[j].is_weekend = 0

\* C8: no foreign-key failure at write time. With foreign keys enforced, when
\* the sales rows are inserted every non-null date, customer_id, product_id,
\* store_id, payment_method_id and campaign_id they carry already has a row in
\* the referenced table, and load_dw never fails on a FOREIGN KEY constraint.
C8_NoForeignKeyFailure ==
    /\ ForeignKeysOn
    /\ error # "IntegrityError: FOREIGN KEY constraint failed"
    /\ pc = "to_sql" /\ InsertOrder[to_sql_i] = "sales" =>
          \A i \in 1..Len(sales_df) :
             \A fk \in ForeignKeys("sales") :
                ~SqlIsNull(fk[1], sales_df[i][fk[1]]) =>
                   \E j \in 1..Len(db_conn[fk[2]]) :
                      db_conn[fk[2]][j][fk[3]] = sales_df[i][fk[1]]

\* a finished load whose facts name a customer the customers file lacks
C8_Witness ==
    /\ pc = "done"
    /\ Len(db_disk["sales"]) > 0
    /\ Len(customers_df) > Len(customers_raw)
    /\ \E i \in 1..Len(db_disk["sales"]) : db_disk["sales"][i].campaign_id # NaN

\* C9: store sentinel. Every row normalize_sales outputs for an input row whose
\* StoreID cell was missing or empty has store_id "UNKNOWN-STORE".
C9_StoreSentinel ==
    Normalized =>
        \A i \in 1..Len(sales_df) :
           clean_dir.sales_data_clean[sales_df[i].index + 1].StoreID = "" =>
              sales_df[i].store_id = "UNKNOWN-STORE"

\* C10: payment-method sentinel. Every row normalize_sales outputs for an input
\* row whose PaymentMethod cell was missing or empty has payment_method_id
\* "UNKNOWN".
C10_PaymentSentinel ==
    Normalized =>
        \A i \in 1..Len(sales_df) :
           clean_dir.sales_data_clean[sales_df[i].index + 1].PaymentMethod = "" =>
              sales_df[i].payment_method_id = "UNKNOWN"

\* C11: optional campaign. campaign_id of an output row is null when the input
\* CampaignID cell was missing, empty or the text "nan", and is the input text
\* otherwise; a fact with a null campaign is kept, the campaigns table gets no
\* row for it, and the loaded fact row carries a NULL campaign_id.
C11_OptionalCampaign ==
    /\ Normalized =>
          \A i \in 1..Len(sales_df) :
             LET cell == clean_dir.sales_data_clean[sales_df[i].index + 1].CampaignID
             IN  sales_df[i].campaign_id = IF cell \in {"", "nan"} THEN NaN ELSE cell
    /\ Built =>
          \A j \in 1..Len(campaigns_df) :
             campaigns_df[j].campaign_id \notin {NaN, "nan", ""}
    /\ pc = "done" =>
          /\ Len(db_disk["sales"]) = Len(sales_df)
          /\ \A i \in 1..Len(sales_df) :
                db_disk["sales"][i].campaign_id = sales_df[i].campaign_id
          /\ \A j \in 1..Len(db_disk["campaigns"]) :
                db_disk["campaigns"][j].campaign_id \notin {NaN, "nan", ""}

\* a finished load with one fact of campaign K1 and one whose cell read "nan"
C11_Witness ==
    /\ pc = "done"
    /\ Len(db_disk["campaigns"]) = 1
    /\ \E i \in 1..Len(db_disk["sales"]) :
          /\ db_disk["sales"][i].campaign_id = NaN
          /\ clean_dir.sales_data_clean[sales_df[i].index + 1].CampaignID = "nan"
    /\ \E i \in 1..Len(db_disk["sales"]) : db_disk["sales"][i].campaign_id = "K1"

\* the three cleaned files exist
FilesPresent ==
    {"customers_data_clean", "products_data_clean", "sales_data_clean"}
        \subseteq DOMAIN clean_dir

\* each file that exists has every column the loader renames
RequiredHeaders ==
    /\ "customers_data_clean" \in DOMAIN clean_dir =>
          \A c \in CustomersColumns : HasColumn(clean_dir.customers_data_clean, c)
    /\ "products_data_clean" \in DOMAIN clean_dir =>
          \A c \in ProductsColumns : HasColumn(clean_dir.products_data_clean, c)
    /\ "sales_data_clean" \in DOMAIN clean_dir =>
          \A c \in SalesColumns : HasColumn(clean_dir.sales_data_clean, c)

\* no two sales rows share a TransactionID and no two customers rows a CustomerID
NoRepeatedKey ==
    /\ \A i, j \in 1..Len(clean_dir.sales_data_clean) :
          i # j => clean_dir.sales_data_clean[i].TransactionID
                      # clean_dir.sales_data_clean[j].TransactionID
    /\ \A i, j \in 1..Len(clean_dir.customers_data_clean) :
          i # j /\ clean_dir.customers_data_clean[i].CustomerID # ""
             => clean_dir.customers_data_clean[i].CustomerID
                   # clean_dir.customers_data_clean[j].CustomerID

\* C12: row-level defects never fatal. When the three cleaned files exist with
\* their headers, whatever defects their rows carry (a date that does not parse,
\* a quantity or amount that is missing or not a number, a missing key value, a
\* store, campaign or payment method not seen before), load_dw never ends in an
\* error; this is stated here for files that repeat no key, so that only the
\* listed defects remain.
C12_RowDefectsNeverFatal ==
    FilesPresent /\ RequiredHeaders /\ NoRepeatedKey => pc # "failed"

\* the second run on the same files has ended
SecondRunOver == run = "second" /\ pc \in {"done", "failed"}

\* C13: full-refresh idempotence. After load_dw has run twice on the same
\* cleaned files the store holds in every table exactly the rows it held after
\* the first run, the second run ends as the first did and reports the same
\* counts; after a run that completes each table holds exactly the rows of the
\* frame written to it, so nothing is doubled and nothing older is left.
C13_FullRefresh ==
    /\ SecondRunOver =>
          /\ db_disk = first.db
          /\ pc = first.pc
          /\ report = first.report
    /\ pc = "done" =>
          \A t \in Tables :
             /\ Len(db_disk[t]) = Len(FrameOf(t))
             /\ \A i \in 1..Len(FrameOf(t)) :
                   \A c \in DOMAIN FrameOf(t)[i] : db_disk[t][i][c] = FrameOf(t)[i][c]

\* a second run that completed over a store the first run had filled with facts
C13_Witness ==
    /\ SecondRunOver
    /\ pc = "done"
    /\ Len(first.db["sales"]) = MaxSales
    /\ Len(first.db["customers"]) > 0

\* C14: precondition failure leaves the store untouched. When one of the three
\* cleaned files is absent, or a required column is absent from one of them,
\* load_dw fails before the store is opened: the run never reaches
\* sqlite3.connect, no statement is issued, no table is created and no row is
\* deleted or inserted.
C14_PreconditionFailure ==
    ~(FilesPresent /\ RequiredHeaders) =>
        /\ pc \in {"read", "normalize", "build", "ensure", "failed"}
        /\ sql_log = << >>
        /\ db_disk = db_before

\* C15: unique natural key. In the customers table load_dw hands to the write
\* step, placeholder customers included, no customer_id occurs in two rows,
\* whatever cleaned customers file was read.
C15_UniqueCustomerId ==
    Ensured =>
        \A i, j \in 1..Len(customers_df) :
           i # j /\ customers_df[i].customer_id # NaN =>
              customers_df[i].customer_id # customers_df[j].customer_id

\* C16: quantity coercion. In every row normalize_sales outputs, quantity is a
\* non-negative integer, and it is 0 when the input Quantity cell was missing or
\* not a number; no input, a negative number included, gives a negative quantity.
C16_QuantityNonNegative ==
    Normalized =>
        \A i \in 1..Len(sales_df) :
           /\ sales_df[i].quantity \in Nat
           /\ Len(sales_raw[sales_df[i].index + 1].Quantity) # 1 =>
                 sales_df[i].quantity = 0

\* C17: boolean mapping. _yn_to_int gives 1 for a value that reads, trimmed and
\* case-folded, "yes", "true" or "1", 0 for "no", "false" or "0", and 0 for any
\* other or missing value; each result is 0 or 1 and there is one result per
\* input value, in the input order.
C17_BooleanMapping ==
    Normalized =>
        /\ Len(customers_df) >= Len(customers_raw)
        /\ \A i \in 1..Len(customers_raw) :
              LET v   == customers_raw[i].EmailOptIn
                  out == customers_df[i].email_opt_in
              IN  /\ out \in {0, 1}
                  /\ v \in {"yes", "Yes", " Yes ", "TRUE", "1"} => out = 1
                  /\ v \in {"NO", "false", "0"} => out = 0
                  /\ v \in {"maybe", NaN, "1.0", "0.0"} => out = 0
        /\ pc = "build" => Len(customers_df) = Len(customers_raw)

\* a customers frame normalized from " Yes " and "false"
C17_Witness ==
    /\ pc = "build"
    /\ Len(customers_raw) = 2
    /\ customers_raw[1].EmailOptIn = " Yes " /\ customers_df[1].email_opt_in = 1
    /\ customers_raw[2].EmailOptIn = "false" /\ customers_df[2].email_opt_in = 0

\* the day count of a written "%Y-%m-%d" date
DaysOf(date) == DaysFromCivil(date[1], date[2], date[3])

\* C18: augmented LastPurchaseDate range. Every row add_columns_to_customers
\* writes has a LastPurchaseDate not earlier than its start date (the parsed
\* JoinDate, or 2020-01-01 when JoinDate is absent or does not parse, clamped to
\* TODAY) and not later than TODAY, a JoinDate equal to or after TODAY included.
C18_LastPurchaseRange ==
    \A i \in 1..Len(OUTPUT_PATH) :
       LET start == StartDate(parse_date(INPUT_PATH.rows[i].JoinDate))
       IN  /\ start[1] <= DaysOf(OUTPUT_PATH[i].LastPurchaseDate)
           /\ DaysOf(OUTPUT_PATH[i].LastPurchaseDate) <= TODAY[1]

\* the states BuildDims and EnsureDims leave (no later step changes a frame)
JustBuilt   == pc = "ensure"
JustEnsured == pc = "connect"

\* the placeholder row a dimension is to get for key value k
Placeholder(key, k) ==
    CASE key = "customer_id" ->
            [customer_id |-> k, name |-> "", region |-> "", join_date |-> "",
             last_purchase_date |-> "", email_opt_in |-> 0]
      [] key = "product_id" ->
            [product_id |-> k, product_name |-> "", category |-> "", unit_price |-> 0,
             stock_level |-> 0, discontinued |-> 0]
      [] key = "store_id" -> [store_id |-> k, store_name |-> "", region |-> ""]
      [] key = "campaign_id" ->
            [campaign_id |-> k, campaign_name |-> "", start_date |-> "", end_date |-> ""]
      [] key = "payment_method_id" -> [payment_method_id |-> k, method_name |-> k]

\* post is pre followed by one placeholder per fact key pre lacks, in ascending order
FrameAndAppend(pre, post, key) ==
    LET n    == Len(pre)
        have == {AsStr(pre[i][key]) : i \in 1..n}
        need == {sales_df[i][key] : i \in {j \in 1..Len(sales_df) : sales_df[j][key] # NaN}}
    IN  /\ Len(post) = n + Cardinality(need \ have)
        /\ \A i \in 1..n : post[i] = pre[i]
        /\ \A i \in (n + 1)..Len(post) :
              /\ post[i][key] \in need \ have
              /\ post[i] = Placeholder(key, post[i][key])
        /\ \A i, j \in (n + 1)..Len(post) :
              i < j => StrRank(post[i][key]) < StrRank(post[j][key])
        /\ need \subseteq have => post = pre

\* the first rows of a frame
Prefix(df, n) == SubSeq(df, 1, IF n < Len(df) THEN n ELSE Len(df))

\* C19: enforcer frame and append. ensure_dim_covers_sales_keys removes,
\* reorders and changes no row of the dimension it is given: its result is these
\* rows followed by exactly one new row per fact key value the dimension lacks,
\* in ascending key order, each with the supplied defaults (method_name equal to
\* the key for a payment method); when no key is lacking the result is the
\* dimension itself. Stated of the five calls of load_dw and of the calls on the
\* empty and on the one-row stores and payment-method dimensions.
C19_FrameAndAppend ==
    JustEnsured =>
        /\ FrameAndAppend(normalize_customers(customers_raw), customers_df, "customer_id")
        /\ FrameAndAppend(normalize_products(products_raw), products_df, "product_id")
        /\ FrameAndAppend(build_dim_from_sales(sales_df, "store_id", "stores"),
                          stores_df, "store_id")
        /\ FrameAndAppend(build_dim_from_sales(sales_df, "campaign_id", "campaigns"),
                          campaigns_df, "campaign_id")
        /\ FrameAndAppend(build_dim_from_sales(sales_df, "payment_method_id",
                                               "payment_methods"),
                          methods_df, "payment_method_id")
        /\ \A n \in {0, 1} :
              /\ FrameAndAppend(Prefix(methods_df, n),
                                ensure_dim_covers_sales_keys(sales_df, Prefix(methods_df, n),
                                    "payment_method_id", MethodDefaults),
                                "payment_method_id")
              /\ FrameAndAppend(Prefix(stores_df, n),
                                ensure_dim_covers_sales_keys(sales_df, Prefix(stores_df, n),
                                    "store_id", StoreDefaults),
                                "store_id")

\* customers C2 and C1, met in this order in the facts, were appended as C1, C2
\* to a customers frame of one row
C19_Witness ==
    /\ pc = "connect"
    /\ Len(customers_raw) = 1
    /\ Len(customers_df) = 3
    /\ sales_df[1].customer_id = "C2"
    /\ customers_df[2].customer_id = "C1"
    /\ customers_df[3].customer_id = "C2"

\* dim has exactly one row per non-null value of column key among the surviving
\* fact rows, and no other row
ExactSkeleton(dim, key) ==
    /\ \A i \in 1..Len(sales_df) :
          sales_df[i][key] # NaN =>
             Cardinality({j \in 1..Len(dim) : dim[j][key] = sales_df[i][key]}) = 1
    /\ \A j \in 1..Len(dim) :
          /\ dim[j][key] # NaN
          /\ \E i \in 1..Len(sales_df) : sales_df[i][key] = dim[j][key]

\* the CampaignID texts that occur only in rows dropped for their date
DroppedOnlyCampaigns ==
    {sales_raw[i].CampaignID : i \in BadDateRows}
       \ {sales_raw[i].CampaignID : i \in (1..Len(sales_raw)) \ BadDateRows}

\* C20: skeleton dimensions are exact. For stores, campaigns and payment
\* methods, build_dim_from_sales returns exactly one row per distinct non-null
\* key value among the surviving fact rows and no row for a value that occurs
\* only in rows dropped for a date that does not parse; the later
\* ensure_dim_covers_sales_keys call of load_dw therefore adds no row to them.
C20_ExactSkeletons ==
    JustBuilt \/ JustEnsured =>
        /\ ExactSkeleton(stores_df, "store_id")
        /\ ExactSkeleton(campaigns_df, "campaign_id")
        /\ ExactSkeleton(methods_df, "payment_method_id")
        /\ \A j \in 1..Len(campaigns_df) :
              campaigns_df[j].campaign_id \notin DroppedOnlyCampaigns
        /\ JustEnsured =>
              /\ stores_df = build_dim_from_sales(sales_df, "store_id", "stores")
              /\ campaigns_df = build_dim_from_sales(sales_df, "campaign_id", "campaigns")
              /\ methods_df = build_dim_from_sales(sales_df, "payment_method_id",
                                                   "payment_methods")

\* a load past the enforcer with
\* one surviving fact beside a dropped row that alone names campaign K2
C20_Witness ==
    /\ pc = "connect"
    /\ Len(sales_raw) = 2
    /\ Len(sales_df) = 1
    /\ "K2" \in DroppedOnlyCampaigns
    /\ Len(campaigns_df) = 1
    /\ Len(stores_df) = 1

\* ------------------------------------------------------------ the cleaners
\* clean_sales has returned: clean_df is its result
SalesCleaned == cleaner_pc = "clean_sales returned"

\* the identifiers a sale cannot lack
CoreIds == {"TransactionID", "CustomerID", "ProductID"}

\* a raw row with a value, and not a blank one, in each core identifier
HasCoreIds(r) == \A c \in CoreIds : ~IsNa(r[c]) /\ Strip(r[c]) # ""

\* C21: the sales cleaner drops rows without core identifiers. No row of the
\* result of clean_sales has a missing or empty TransactionID, CustomerID or
\* ProductID, and every raw row in which one of the three has no value or is
\* blank is removed: each row of the result carries the trimmed identifiers of
\* a raw row that has all three.
C21_CoreIdsPresent ==
    SalesCleaned =>
        \A k \in 1..Len(clean_df) :
           /\ \A c \in CoreIds : clean_df[k][c] \notin {NaN, ""}
           /\ \E i \in 1..Len(df_raw) :
                 /\ HasCoreIds(df_raw[i])
                 /\ \A c \in CoreIds : clean_df[k][c] = Strip(df_raw[i][c])

\* C22: sales cleaner key uniqueness. For any raw input with the expected
\* columns, no two rows of the result of clean_sales have the same
\* TransactionID.
C22_UniqueTransactionId ==
    SalesCleaned =>
        \A i, j \in 1..Len(clean_df) :
           i # j => clean_df[i].TransactionID # clean_df[j].TransactionID

\* the raw rows a row of the result can come from: those with its TransactionID
\* (trimmed) when no other raw row has it
RawRowsOf(r) ==
    LET id(i) == Strip(AsStr(df_raw[i].TransactionID))
    IN  {i \in 1..Len(df_raw) :
            /\ id(i) = r.TransactionID
            /\ \A j \in 1..Len(df_raw) : j # i => id(j) # id(i)}

\* C23: sales cleaner quantity floor. In every row of the result of
\* clean_sales Quantity is an integer greater than or equal to 1; a missing,
\* non-numeric or below-1 raw Quantity has become 1, and neither the rounding
\* nor the outlier trimming brings back a value below 1.
C23_QuantityFloor ==
    SalesCleaned =>
        \A k \in 1..Len(clean_df) :
           /\ clean_df[k].Quantity[1] \in Nat
           /\ clean_df[k].Quantity[1] >= 1
           /\ \A i \in RawRowsOf(clean_df[k]) :
                 (Len(df_raw[i].Quantity) # 1 \/ df_raw[i].Quantity[1] < 100) =>
                     clean_df[k].Quantity = <<1>>

\* clean_customers has returned: clean_df is its result
CustomersCleaned == cleaner_pc = "clean_customers returned"

\* the raw rows a customer of the result can come from: those with its
\* CustomerID (trimmed) when no other raw row has it
RawCustomersOf(r) ==
    LET id(i) == Strip(AsStr(df_raw[i].CustomerID))
    IN  {i \in 1..Len(df_raw) :
            /\ id(i) = r.CustomerID
            /\ \A j \in 1..Len(df_raw) : j # i => id(j) # id(i)}

\* C24: customer cleaner date order. For any raw input with the expected
\* columns, every row of the result of clean_customers has a JoinDate, and a
\* LastPurchaseDate that is not earlier than it: a missing (or unreadable)
\* LastPurchaseDate has been filled with the JoinDate, a pair in the wrong
\* order has been swapped, and a pair in the right order is as it was read.
C24_DateOrder ==
    CustomersCleaned =>
        \A k \in 1..Len(clean_df) :
           LET r == clean_df[k]
           IN  /\ r.JoinDate # NaT
               /\ r.LastPurchaseDate # NaT
               /\ r.JoinDate[1] <= r.LastPurchaseDate[1]
               /\ \A i \in RawCustomersOf(r) :
                     LET j == ToDatetime(df_raw[i].JoinDate)
                         l == ToDatetime(df_raw[i].LastPurchaseDate)
                     IN  /\ j # NaT
                         /\ l = NaT => r.JoinDate = j /\ r.LastPurchaseDate = j
                         /\ l # NaT /\ l[1] < j[1] =>
                               r.JoinDate = l /\ r.LastPurchaseDate = j
                         /\ l # NaT /\ l[1] >= j[1] =>
                               r.JoinDate = j /\ r.LastPurchaseDate = l

\* a result with a customer whose dates were swapped (joined 2024-03-09, last
\* purchase 2024-01-05) and one whose missing LastPurchaseDate was filled
C24_Witness ==
    /\ CustomersCleaned
    /\ Len(df_raw) = 2 /\ Len(clean_df) = 2
    /\ df_raw[1].CustomerID = "C1" /\ df_raw[2].CustomerID = "C2"
    /\ df_raw[1].JoinDate = <<2024, 3, 9>> /\ df_raw[1].LastPurchaseDate = <<2024, 1, 5>>
    /\ clean_df[1].JoinDate = ToDatetime(<<2024, 1, 5>>)
    /\ clean_df[1].LastPurchaseDate = ToDatetime(<<2024, 3, 9>>)
    /\ df_raw[2].JoinDate = <<2024, 1, 10>> /\ df_raw[2].LastPurchaseDate = << >>
    /\ clean_df[2].JoinDate = ToDatetime(<<2024, 1, 10>>)
    /\ clean_df[2].LastPurchaseDate = ToDatetime(<<2024, 1, 10>>)

=============================================================================
